---- MODULE Spec2Model ----
(***************************************************************************)
(* State-machine model of the academy store (AcademyProvider): the         *)
(* attendance ledger, the promotion evaluator and the calendar engine.     *)
(*                                                                         *)
(* Encodings                                                               *)
(*   - a Date object is the number of days since 1970-01-01 (the code     *)
(*     only ever holds local midnights in the parts modelled here);        *)
(*   - a date string 'yyyy-MM-dd' is the tuple <<y, m, d>> of its fields;  *)
(*     the empty tuple <<>> is the empty / missing string;                 *)
(*   - a time string 'HH:MM' is the tuple of its ':'-separated numeric     *)
(*     fields, <<h, m>>; <<>> is the empty / missing string and a tuple of *)
(*     one field ("16") is a malformed value;                              *)
(*   - the JavaScript value undefined is the string "undefined".           *)
(***************************************************************************)
EXTENDS Integers, Sequences, FiniteSets, TLC

VARIABLES
    students,        \* useState<Student[]>
    classes,         \* useState<ClassCategory[]>
    events,          \* useState<Event[]>
    scheduleEvents,  \* useState<CalendarEvent[]> (derived by the effect)
    academySettings, \* useState<AcademySettings>
    currentUser,     \* useAuth().currentUser
    now,             \* the clock read by new Date() / getLocalDate()
    effectPending,   \* the schedule effect is queued (classes or events were set)
    lastCall,        \* log: the member / rank entry point (or load) called last, its arguments
                     \* (markAttendance: also the clock value of the call, and
                     \* whether the call before was the same call at the same clock)
    calls,           \* log: number of member / rank calls and loads made so far
    db,              \* the remote store behind PulseService: its students, classes,
                     \* events and settings, and (saved) the service calls the entry
                     \* point called last has issued
    refresh,         \* loadData: isPollingRef.current, and the snapshot a load in
                     \* flight has read
    auth,            \* AuthProvider: loading, the effect's mounted flag and
                     \* subscription, the getCurrentUser calls awaited, the
                     \* auth client's session, and (log) whether SIGNED_OUT was
                     \* the last sign-in or sign-out handled
    route            \* ProtectedRoute: the allowedRoles and the output of the
                     \* last render

vars == <<students, classes, events, scheduleEvents, academySettings,
          currentUser, now, effectPending, lastCall, calls, db, refresh,
          auth, route>>

Undefined == "undefined"
NoString == <<>>

-----------------------------------------------------------------------------
(* Bounds of the model.                                                    *)

\* member / rank calls and loads explored from an initial state
MaxCalls == 2
\* longest list of modifications a class is given
MaxModifications == 2
\* clock ticks explored
MaxTicks == 1
\* largest attendance count of a member handed to updateStudent
MaxAttendance == 3
\* getCurrentUser calls of auth event handlers awaited at a time
MaxLookups == 2

-----------------------------------------------------------------------------
(* Calendar arithmetic of the JavaScript Date object and of date-fns.      *)

\* days since 1970-01-01 of the proleptic Gregorian date y-m-d
DaysFromCivil(y, m, d) ==
    LET yy  == IF m <= 2 THEN y - 1 ELSE y
        era == yy \div 400
        yoe == yy - era * 400
        mp  == IF m > 2 THEN m - 3 ELSE m + 9
        doy == (153 * mp + 2) \div 5 + d - 1
        doe == yoe * 365 + yoe \div 4 - yoe \div 100 + doy
    IN  era * 146097 + doe - 719468

\* <<y, m, d>> of the day z days after 1970-01-01
CivilFromDays(z) ==
    LET zz  == z + 719468
        era == zz \div 146097
        doe == zz - era * 146097
        yoe == (doe - doe \div 1460 + doe \div 36524 - doe \div 146096) \div 365
        doy == doe - (365 * yoe + yoe \div 4 - yoe \div 100)
        mp  == (5 * doy + 2) \div 153
        d   == doy - (153 * mp + 2) \div 5 + 1
        m   == IF mp < 10 THEN mp + 3 ELSE mp - 9
        y   == yoe + era * 400 + (IF m <= 2 THEN 1 ELSE 0)
    IN  <<y, m, d>>

\* new Date(year, monthIndex, day): monthIndex and day overflow are carried
JsDate(year, monthIndex, day) ==
    DaysFromCivil(year + monthIndex \div 12, (monthIndex % 12) + 1, 1) + (day - 1)

\* Date.prototype.getFullYear / getMonth (0-based) / getDay (0 = Sunday)
GetFullYear(date) == CivilFromDays(date)[1]
GetMonth(date) == CivilFromDays(date)[2] - 1
GetDay(date) == (date + 4) % 7

\* CivilFromDays, tabulated once for the years the model's clock can show
CivilTable ==
    [z \in DaysFromCivil(2024, 1, 1)..DaysFromCivil(2025, 12, 31) |-> CivilFromDays(z)]

\* date-fns format(date, 'yyyy-MM-dd')
FormatDate(date) ==
    IF date \in DOMAIN CivilTable THEN CivilTable[date] ELSE CivilFromDays(date)

\* new Date('yyyy-MM-dd').getTime(), in days
ParseDate(dateStr) == DaysFromCivil(dateStr[1], dateStr[2], dateStr[3])

\* getLocalDate(): today's date string
getLocalDate == FormatDate(now)

\* new Date().toISOString(): the instant of the call
Timestamp == now

-----------------------------------------------------------------------------
(* Array helpers.                                                          *)

\* Array.prototype.findIndex, 1-based; 0 when no element passes the test
FindIndex(arr, Test(_)) ==
    IF \E i \in DOMAIN arr : Test(arr[i])
    THEN CHOOSE i \in DOMAIN arr : Test(arr[i]) /\ \A j \in 1..(i - 1) : ~Test(arr[j])
    ELSE 0

\* Array.prototype.filter
Filter(arr, Test(_)) == SelectSeq(arr, Test)

\* Array.prototype.includes
Includes(arr, x) == \E i \in DOMAIN arr : arr[i] = x

\* a splice that always removes the first element
SpliceFirst(arr, index) == Tail(arr)

\* Array.prototype.splice(index, 1), 1-based
Splice(arr, index) == SubSeq(arr, 1, index - 1) \o SubSeq(arr, index + 1, Len(arr))

\* object spread { ...a, ...b }: b's own properties win, a's others are kept
Spread(a, b) ==
    [f \in (DOMAIN a) \cup (DOMAIN b) |-> IF f \in DOMAIN b THEN b[f] ELSE a[f]]

-----------------------------------------------------------------------------
(* The remote store, as the entry points use it through PulseService.      *)

\* an upsert of one item by id: an item of the id is replaced where it is,
\* a new one goes to the end
UpsertItem(list, item) ==
    IF \E i \in DOMAIN list : list[i].id = item.id
    THEN [i \in DOMAIN list |-> IF list[i].id = item.id THEN item ELSE list[i]]
    ELSE Append(list, item)

RECURSIVE UpsertAll(_, _)
UpsertAll(list, items) ==
    IF items = <<>> THEN list
    ELSE UpsertAll(UpsertItem(list, Head(items)), Tail(items))

\* the store as an entry point finds it when it is called: no service call
\* issued yet
Called(store) == [store EXCEPT !.saved = <<>>]

\* await PulseService.saveStudents(items)
SaveStudents(store, items) ==
    [store EXCEPT !.students = UpsertAll(@, items), !.saved = Append(@, "saveStudents")]

\* await PulseService.saveClasses(items)
SaveClasses(store, items) ==
    [store EXCEPT !.classes = UpsertAll(@, items), !.saved = Append(@, "saveClasses")]

\* await PulseService.saveEvents(items)
SaveEvents(store, items) ==
    [store EXCEPT !.events = UpsertAll(@, items), !.saved = Append(@, "saveEvents")]

\* await PulseService.saveAcademySettings(settings)
SaveAcademySettings(store, settings) ==
    [store EXCEPT !.settings = settings, !.saved = Append(@, "saveAcademySettings")]

\* the store that holds what the provider holds
StoreOf(theStudents, theClasses, theEvents, theSettings) ==
    [students |-> theStudents, classes |-> theClasses, events |-> theEvents,
     settings |-> theSettings, saved |-> <<>>]

\* no load in flight
Idle == [isPolling |-> FALSE, phase |-> "idle", snapshot |-> <<>>]

-----------------------------------------------------------------------------
(* AuthProvider and ProtectedRoute: values of their state.                 *)

\* currentUser: null
Null == [null |-> TRUE]

\* the AuthProvider of a session that was loaded and is listening for auth
\* events, as every AcademyProvider entry point finds it
SignedInAuth(user) ==
    [loading |-> FALSE, mounted |-> TRUE, phase |-> "listening", initRead |-> <<>>,
     lookups |-> <<>>, session |-> user, signedOut |-> FALSE]

\* no ProtectedRoute has rendered
NotRendered == [allowedRoles |-> {}, output |-> "none"]

-----------------------------------------------------------------------------
(* Attendance ledger.                                                      *)

IsPresentOrLate(r) == r.status = "present" \/ r.status = "late"

\* one step of the stable sort: r goes after every record that does not sort
\* after it under (a, b) => new Date(b.date) - new Date(a.date)
InsertByDateDesc(sorted, r) ==
    LET keep == {i \in DOMAIN sorted : ParseDate(sorted[i].date) >= ParseDate(r.date)}
        k == IF keep = {} THEN 0 ELSE CHOOSE i \in keep : \A j \in keep : j <= i
    IN  SubSeq(sorted, 1, k) \o <<r>> \o SubSeq(sorted, k + 1, Len(sorted))

\* history.sort((a, b) => new Date(b.date).getTime() - new Date(a.date).getTime())
RECURSIVE SortByDateDescFrom(_, _)
SortByDateDescFrom(sorted, rest) ==
    IF rest = <<>> THEN sorted
    ELSE SortByDateDescFrom(InsertByDateDesc(sorted, Head(rest)), Tail(rest))

\* the history left in the order of the writes
Unsorted(history) == history

SortByDateDesc(history) == SortByDateDescFrom(<<>>, history)

\* the count with late records left out
AttendanceCountPresentOnly(history) ==
    LET IsPresent(r) == r.status = "present"
    IN  Len(Filter(history, IsPresent))

\* history.filter(r => r.status === 'present' || r.status === 'late').length
AttendanceCount(history) == Len(Filter(history, IsPresentOrLate))

\* the write that appends without looking for the key
AppendHistory(history, recordDate, classId, status, reason) ==
    IF status = Undefined THEN history
    ELSE Append(history, [date |-> recordDate, classId |-> classId, status |-> status,
                          timestamp |-> Timestamp, reason |-> reason])

\* the upsert / delete of markAttendance on one member's history
UpsertHistory(history, recordDate, classId, status, reason) ==
    LET IsKey(r) == r.date = recordDate /\ r.classId = classId
        existingIndex == FindIndex(history, IsKey)
        newRecord == [date |-> recordDate, classId |-> classId, status |-> status,
                      timestamp |-> Timestamp, reason |-> reason]
    IN  IF status = Undefined
        THEN IF existingIndex >= 1 THEN Splice(history, existingIndex) ELSE history
        ELSE IF existingIndex >= 1
             THEN [history EXCEPT ![existingIndex] = Spread(history[existingIndex], newRecord)]
             ELSE Append(history, newRecord)

-----------------------------------------------------------------------------
(* Promotion evaluator.                                                    *)

\* the evaluation without the status test
checkPromotionEligibilityAnyStatus(student) ==
    LET ranks == academySettings.ranks
        IsRank(r) == r.id = student.rankId
        idx == FindIndex(ranks, IsRank)
    IN  IF idx = 0 THEN student
        ELSE IF student.attendance >= ranks[idx].requiredAttendance
             THEN [student EXCEPT !.status = "exam_ready"]
             ELSE student

checkPromotionEligibility(student) ==
    LET ranks == academySettings.ranks
        IsRank(r) == r.id = student.rankId
        idx == FindIndex(ranks, IsRank)
    IN  IF idx = 0 THEN student
        ELSE IF /\ student.attendance >= ranks[idx].requiredAttendance
                /\ (student.status = "active" \/ student.status = "debtor")
             THEN [student EXCEPT !.status = "exam_ready"]
             ELSE student

-----------------------------------------------------------------------------
(* Ledger entry points.                                                    *)

\* the member record with the count stepped instead of recomputed
MarkedStudentCounting(s, recordDate, classId, status, reason) ==
    LET history == SortByDateDesc(
                       UpsertHistory(s.attendanceHistory, recordDate, classId, status, reason))
    IN  [s EXCEPT !.attendance = IF status \in {"present", "late"} THEN @ + 1 ELSE @,
                  !.attendanceHistory = history,
                  !.lastAttendance = IF status \in {"present", "late"} THEN recordDate
                                     ELSE @]

\* the member record markAttendance builds before the eligibility check
MarkedStudent(s, recordDate, classId, status, reason) ==
    LET history == SortByDateDesc(
                       UpsertHistory(s.attendanceHistory, recordDate, classId, status, reason))
        lastPresentIndex == FindIndex(history, IsPresentOrLate)
        lastAttendanceDate == IF lastPresentIndex >= 1 THEN history[lastPresentIndex].date
                              ELSE s.lastAttendance
    IN  [s EXCEPT !.attendance = AttendanceCount(history),
                  !.attendanceHistory = history,
                  !.lastAttendance = lastAttendanceDate]

markAttendance(studentId, classId, date, status, reason) ==
    /\ calls < MaxCalls
    /\ LET recordDate == IF date = NoString THEN getLocalDate ELSE date
       IN  students' = [i \in DOMAIN students |->
               IF students[i].id = studentId
               THEN checkPromotionEligibility(
                        MarkedStudent(students[i], recordDate, classId, status, reason))
               ELSE students[i]]
    /\ LET call == [op |-> "markAttendance", studentId |-> studentId,
                    classId |-> classId, date |-> date, status |-> status,
                    reason |-> reason, at |-> now]
       IN  lastCall' = Spread(call, [repeated |->
                           /\ lastCall.op = "markAttendance"
                           /\ \A f \in DOMAIN call : lastCall[f] = call[f]])
    /\ calls' = calls + 1
    /\ LET IsStudent(s) == s.id = studentId
           index == FindIndex(students, IsStudent)
           recordDate == IF date = NoString THEN getLocalDate ELSE date
       IN  db' = IF index = 0 THEN Called(db)
                 ELSE SaveStudents(Called(db),
                          <<MarkedStudent(students[index], recordDate, classId, status,
                                          reason)>>)
    /\ UNCHANGED <<classes, events, scheduleEvents, academySettings, currentUser, auth, route, now,
                   effectPending, refresh>>

\* the member record of a bulk mark with the count left as it was
BulkMarkedStudentStaleCount(s, recordDate, classId) ==
    LET newRecord == [date |-> recordDate, classId |-> classId, status |-> "present",
                      timestamp |-> Timestamp]
        history == SortByDateDesc(Append(s.attendanceHistory, newRecord))
    IN  [s EXCEPT !.attendanceHistory = history,
                  !.lastAttendance = recordDate]

\* the member record bulkMarkPresent builds before the eligibility check
BulkMarkedStudent(s, recordDate, classId) ==
    LET newRecord == [date |-> recordDate, classId |-> classId, status |-> "present",
                      timestamp |-> Timestamp]
        history == SortByDateDesc(Append(s.attendanceHistory, newRecord))
    IN  [s EXCEPT !.attendance = AttendanceCount(history),
                  !.attendanceHistory = history,
                  !.lastAttendance = recordDate]

\* the test that takes only a present or late record as a mark
HasPresentRecord(history, recordDate, classId) ==
    \E i \in DOMAIN history :
        /\ history[i].date = recordDate /\ history[i].classId = classId
        /\ IsPresentOrLate(history[i])

\* history.some(r => r.date === recordDate && r.classId === classId)
HasRecord(history, recordDate, classId) ==
    \E i \in DOMAIN history :
        history[i].date = recordDate /\ history[i].classId = classId

bulkMarkPresent(classId, date) ==
    /\ calls < MaxCalls
    /\ LET IsClass(c) == c.id = classId
           clsIndex == FindIndex(classes, IsClass)
           recordDate == IF date = NoString THEN getLocalDate ELSE date
       IN  IF clsIndex = 0
           THEN students' = students
           ELSE students' = [i \in DOMAIN students |->
                    IF /\ Includes(classes[clsIndex].studentIds, students[i].id)
                       /\ ~HasRecord(students[i].attendanceHistory, recordDate, classId)
                    THEN checkPromotionEligibility(
                             BulkMarkedStudent(students[i], recordDate, classId))
                    ELSE students[i]]
    /\ lastCall' = [op |-> "bulkMarkPresent", classId |-> classId, date |-> date]
    /\ calls' = calls + 1
    /\ LET \* the members the call gave a record (studentsToUpdate, in map order)
           Updated(i) == students'[i] # students[i]
           studentsToUpdate == [k \in 1..Cardinality({i \in DOMAIN students : Updated(i)}) |->
               students'[CHOOSE i \in DOMAIN students :
                   /\ Updated(i)
                   /\ Cardinality({j \in 1..i : Updated(j)}) = k]]
       IN  db' = IF studentsToUpdate = <<>> THEN Called(db)
                 ELSE SaveStudents(Called(db), studentsToUpdate)
    /\ UNCHANGED <<classes, events, scheduleEvents, academySettings, currentUser, auth, route, now,
                   effectPending, refresh>>

\* promoteStudent's record if the spread kept the attendance ledger
PromotedStudentKeepingLedger(s) ==
    LET ranks == academySettings.ranks
        IsRank(r) == r.id = s.rankId
        nextIndex == FindIndex(ranks, IsRank) + 1
    IN  IF nextIndex > Len(ranks) THEN s
        ELSE LET nextRank == ranks[nextIndex]
                 historyItem == [rank |-> s.rank, date |-> getLocalDate,
                                 notes |-> nextRank.name]
             IN  [s EXCEPT !.rank = nextRank.name,
                           !.rankId = nextRank.id,
                           !.status = "active",
                           !.promotionHistory = <<historyItem>> \o s.promotionHistory]

\* promoteStudent's record if the rank after the last were the first again
PromotedStudentWrapping(s) ==
    LET ranks == academySettings.ranks
        IsRank(r) == r.id = s.rankId
        nextIndex == (FindIndex(ranks, IsRank) % Len(ranks)) + 1
    IN  IF ranks = <<>> THEN s
        ELSE LET nextRank == ranks[nextIndex]
                 historyItem == [rank |-> s.rank, date |-> getLocalDate,
                                 notes |-> nextRank.name]
             IN  [s EXCEPT !.rank = nextRank.name,
                           !.rankId = nextRank.id,
                           !.attendance = 0,
                           !.attendanceHistory = <<>>,
                           !.status = "active",
                           !.promotionHistory = <<historyItem>> \o s.promotionHistory]

\* the member record promoteStudent builds; s unchanged when there is no next rank
PromotedStudent(s) ==
    LET ranks == academySettings.ranks
        IsRank(r) == r.id = s.rankId
        nextIndex == FindIndex(ranks, IsRank) + 1
    IN  IF nextIndex > Len(ranks) THEN s
        ELSE LET nextRank == ranks[nextIndex]
                 historyItem == [rank |-> s.rank, date |-> getLocalDate,
                                 notes |-> nextRank.name]
             IN  [s EXCEPT !.rank = nextRank.name,
                           !.rankId = nextRank.id,
                           !.attendance = 0,
                           !.attendanceHistory = <<>>,
                           !.status = "active",
                           !.promotionHistory = <<historyItem>> \o s.promotionHistory]

promoteStudent(studentId) ==
    /\ calls < MaxCalls
    /\ IF currentUser.role # "master"
       THEN students' = students
       ELSE students' = [i \in DOMAIN students |->
                IF students[i].id # studentId THEN students[i]
                ELSE PromotedStudent(students[i])]
    /\ lastCall' = [op |-> "promoteStudent", studentId |-> studentId]
    /\ calls' = calls + 1
    /\ LET \* updatedStudent is set: the member was given the next rank
           Promoted(i) == students[i].id = studentId /\ students'[i] # students[i]
       IN  db' = IF \E i \in DOMAIN students : Promoted(i)
                 THEN SaveStudents(Called(db),
                          <<students'[CHOOSE i \in DOMAIN students : Promoted(i)]>>)
                 ELSE Called(db)
    /\ UNCHANGED <<classes, events, scheduleEvents, academySettings, currentUser, auth, route, now,
                   effectPending, refresh>>

-----------------------------------------------------------------------------
(* Calendar engine.                                                        *)

\* the series default, whatever the modification carries
TimeDefault(a, b) == b

\* a || b on a time string: '' and undefined (both <<>>) are falsy
TimeOrElse(a, b) == IF a = NoString THEN b ELSE a

\* a || b on a name: '' and undefined are falsy
NameOrElse(a, b) == IF a = Undefined \/ a = "" THEN b ELSE a

\* the value a find() that matched nothing hands to the optional chains
NoModification ==
    [date |-> NoString, type |-> Undefined, newDate |-> NoString,
     newStartTime |-> NoString, newEndTime |-> NoString, newInstructor |-> Undefined]

\* a Date with a time of day, as <<minutes since 1970-01-01T00:00>>;
\* <<>> is the Invalid Date
InvalidDate == <<>>

\* d = new Date(loopDate); d.setHours(h, m, 0) for [h, m] = time.split(':').map(Number)
SetHours(loopDate, time) ==
    IF Len(time) < 2 THEN InvalidDate
    ELSE <<loopDate * 1440 + time[1] * 60 + time[2]>>

\* new Date(`${evt.date}T${evt.time}`)
ParseDateTime(dateStr, time) ==
    IF dateStr = NoString \/ Len(time) < 2 THEN InvalidDate
    ELSE <<ParseDate(dateStr) * 1440 + time[1] * 60 + time[2]>>

\* new Date(start.getTime() + 60 * 60 * 1000)
PlusOneHour(start) == IF start = InvalidDate THEN InvalidDate ELSE <<start[1] + 60>>

dayNames == <<"Sunday", "Monday", "Tuesday", "Wednesday", "Thursday", "Friday", "Saturday">>

\* the bounds of the recurring-expansion window for the clock value today
startWindow(today) == JsDate(GetFullYear(today), GetMonth(today) - 2, 1)
endWindow(today) == JsDate(GetFullYear(today), GetMonth(today) + 10, 0)

\* an identifier made of the class id alone
InstanceIdOfClass(clsId, dateStr) == <<clsId, NoString>>

\* `${cls.id}-${dateStr}`: the date string is the fixed-width suffix
InstanceId(clsId, dateStr) == <<clsId, dateStr>>

\* the disposition without the suppression of a moved session's origin
DispositionOriginKept(cls, loopDate) ==
    LET dayName == dayNames[GetDay(loopDate) + 1]
        dateStr == FormatDate(loopDate)
        IsOrigin(m) == m.date = dateStr
        IsMovedHere(m) == m.newDate = dateStr /\ m.type = "move"
        modIndex == FindIndex(cls.modifications, IsOrigin)
        movedIndex == FindIndex(cls.modifications, IsMovedHere)
    IN  IF movedIndex >= 1
        THEN [shouldRender |-> TRUE, currentMod |-> cls.modifications[movedIndex]]
        ELSE IF Includes(cls.days, dayName)
             THEN [shouldRender |-> TRUE,
                   currentMod |-> IF modIndex >= 1 THEN cls.modifications[modIndex]
                                  ELSE NoModification]
             ELSE [shouldRender |-> FALSE, currentMod |-> NoModification]

\* the disposition the loop body resolves for one date of one class:
\* whether to render, and with which modification
Disposition(cls, loopDate) ==
    LET dayName == dayNames[GetDay(loopDate) + 1]
        dateStr == FormatDate(loopDate)
        IsOrigin(m) == m.date = dateStr
        IsMovedHere(m) == m.newDate = dateStr /\ m.type = "move"
        modIndex == FindIndex(cls.modifications, IsOrigin)
        movedIndex == FindIndex(cls.modifications, IsMovedHere)
    IN  IF movedIndex >= 1
        THEN [shouldRender |-> TRUE, currentMod |-> cls.modifications[movedIndex]]
        ELSE IF Includes(cls.days, dayName)
             THEN IF modIndex >= 1 /\ cls.modifications[modIndex].type = "move"
                  THEN [shouldRender |-> FALSE, currentMod |-> NoModification]
                  ELSE [shouldRender |-> TRUE,
                        currentMod |-> IF modIndex >= 1 THEN cls.modifications[modIndex]
                                       ELSE NoModification]
             ELSE [shouldRender |-> FALSE, currentMod |-> NoModification]

\* what one iteration of the while loop pushes: <<instance>> or nothing
InstancesOn(cls, loopDate) ==
    LET disp == Disposition(cls, loopDate)
        currentMod == disp.currentMod
        startTime == TimeOrElse(currentMod.newStartTime, cls.startTime)
        endTime == TimeOrElse(currentMod.newEndTime, cls.endTime)
        instructor == NameOrElse(currentMod.newInstructor, cls.instructor)
        status == IF currentMod.type = "cancel" THEN "cancelled"
                  ELSE IF currentMod.type = "rescheduled" THEN "rescheduled"
                  ELSE "active"
    IN  IF disp.shouldRender /\ startTime # NoString /\ endTime # NoString
        THEN << [id |-> InstanceId(cls.id, FormatDate(loopDate)),
                 classId |-> cls.id,
                 title |-> cls.name,
                 start |-> SetHours(loopDate, startTime),
                 end |-> SetHours(loopDate, endTime),
                 instructor |-> instructor,
                 status |-> status,
                 type |-> "class",
                 isRecurring |-> TRUE] >>
        ELSE <<>>

\* the while loop from loopDate to last, one day at a time in ascending
\* order (evaluated by halving the range; the concatenation keeps the order)
RECURSIVE ClassInstances(_, _, _)
ClassInstances(cls, loopDate, last) ==
    IF loopDate > last THEN <<>>
    ELSE IF loopDate = last THEN InstancesOn(cls, loopDate)
    ELSE LET mid == (loopDate + last) \div 2
         IN  ClassInstances(cls, loopDate, mid) \o ClassInstances(cls, mid + 1, last)

\* 1. one-time events
EventInstance(evt) ==
    LET start == ParseDateTime(evt.date, evt.time)
    IN  Spread(evt, [start |-> start, end |-> PlusOneHour(start), isRecurring |-> FALSE])

RECURSIVE RecurringInstances(_, _)
RecurringInstances(currentClasses, today) ==
    IF currentClasses = <<>> THEN <<>>
    ELSE ClassInstances(Head(currentClasses), startWindow(today), endWindow(today))
         \o RecurringInstances(Tail(currentClasses), today)

calculateCalendarEvents(currentClasses, currentEvents) ==
    [i \in DOMAIN currentEvents |-> EventInstance(currentEvents[i])]
    \o RecurringInstances(currentClasses, now)

-----------------------------------------------------------------------------
(* Calendar entry points and the schedule effect.                          *)

\* useEffect(() => setScheduleEvents(calculateCalendarEvents(classes, events)),
\*           [classes, events])
ScheduleEffect ==
    /\ effectPending
    /\ scheduleEvents' = calculateCalendarEvents(classes, events)
    /\ effectPending' = FALSE
    /\ UNCHANGED <<students, classes, events, academySettings, currentUser, auth, route, now,
                   lastCall, calls, db, refresh>>

\* the class list modifyClassSession would set if it kept the earlier exceptions
ModifiedClassesAppending(classId, modification) ==
    [i \in DOMAIN classes |->
        IF classes[i].id = classId
        THEN [classes[i] EXCEPT !.modifications = Append(@, modification)]
        ELSE classes[i]]

\* the class list modifyClassSession sets
ModifiedClasses(classId, modification) ==
    LET IsClass(c) == c.id = classId
        OtherDate(m) == m.date # modification.date
    IN  [i \in DOMAIN classes |->
            IF classes[i].id = classId
            THEN LET target == classes[FindIndex(classes, IsClass)]
                 IN  [target EXCEPT !.modifications =
                         Append(Filter(target.modifications, OtherDate), modification)]
            ELSE classes[i]]

\* the state change of modifyClassSession (also reached through
\* updateCalendarEvent)
ModifyClassSessionEffect(classId, modification) ==
    LET IsClass(c) == c.id = classId
    IN  IF currentUser.role # "master" \/ FindIndex(classes, IsClass) = 0
        THEN /\ UNCHANGED <<classes, effectPending>>
             /\ db' = Called(db)
        ELSE /\ classes' = ModifiedClasses(classId, modification)
             /\ effectPending' = TRUE
             /\ db' = SaveClasses(Called(db),
                          <<ModifiedClasses(classId, modification)[
                                FindIndex(classes, IsClass)]>>)

\* the length modifyClassSession would give the class's list (0: no such class)
ModifiedLength(classId, modification) ==
    LET IsClass(c) == c.id = classId
        OtherDate(m) == m.date # modification.date
        index == FindIndex(classes, IsClass)
    IN  IF index = 0 THEN 0
        ELSE Len(Filter(classes[index].modifications, OtherDate)) + 1

modifyClassSession(classId, modification) ==
    /\ ~effectPending
    /\ ModifiedLength(classId, modification) <= MaxModifications
    /\ ModifyClassSessionEffect(classId, modification)
    /\ UNCHANGED <<students, events, scheduleEvents, academySettings, currentUser, auth, route, now,
                   lastCall, calls, refresh>>

\* toLocaleTimeString([], { hour: '2-digit', minute: '2-digit', hour12: false })
ToTimeString(date) == <<(date[1] % 1440) \div 60, date[1] % 60>>

Has(updates, field) == field \in DOMAIN updates

\* the modification updateCalendarEvent builds for a class session
UpdateModification(updates) ==
    [date |-> FormatDate(updates.start[1] \div 1440),
     type |-> IF Has(updates, "status") /\ updates.status = "rescheduled" THEN "rescheduled"
              ELSE IF Has(updates, "status") /\ updates.status = "cancelled" THEN "cancel"
              ELSE "instructor",
     newDate |-> NoString,
     newInstructor |-> IF Has(updates, "instructor") THEN updates.instructor ELSE Undefined,
     newStartTime |-> ToTimeString(updates.start),
     newEndTime |-> IF Has(updates, "end") THEN ToTimeString(updates.end) ELSE NoString]

updateCalendarEvent(id, updates) ==
    /\ ~effectPending
    /\ IF currentUser.role # "master"
       THEN UNCHANGED <<classes, events, effectPending>> /\ db' = Called(db)
       ELSE IF Has(updates, "classId") /\ Has(updates, "start")
            THEN /\ ModifiedLength(updates.classId, UpdateModification(updates))
                        <= MaxModifications
                 /\ ModifyClassSessionEffect(updates.classId, UpdateModification(updates))
                 /\ events' = events
            ELSE LET IsEvent(e) == e.id = id
                     targetIndex == FindIndex(events, IsEvent)
                 IN  IF targetIndex = 0
                     THEN UNCHANGED <<classes, events, effectPending>> /\ db' = Called(db)
                     ELSE /\ events' = [i \in DOMAIN events |->
                                 IF events[i].id = id
                                 THEN Spread(events[targetIndex], updates)
                                 ELSE events[i]]
                          /\ effectPending' = TRUE
                          /\ classes' = classes
                          /\ db' = SaveEvents(Called(db),
                                       <<Spread(events[targetIndex], updates)>>)
    /\ UNCHANGED <<students, scheduleEvents, academySettings, currentUser, auth, route, now,
                   lastCall, calls, refresh>>

\* the clock value the model starts from: 2024-06-12, a Wednesday
Now0 == DaysFromCivil(2024, 6, 12)

\* the clock advances by one day
Tick ==
    /\ now < Now0 + MaxTicks
    /\ now' = now + 1
    /\ UNCHANGED <<students, classes, events, scheduleEvents, academySettings,
                   currentUser, auth, route, effectPending, lastCall, calls, db, refresh>>

-----------------------------------------------------------------------------
(* loadData: the read of the remote store, the application of what was     *)
(* read, and the timer that clears isPollingRef.                           *)

\* JSON.stringify of an object of string-valued optional fields: a field
\* whose value is undefined is left out
JsonOptional(r, optional) ==
    [f \in {g \in DOMAIN r : g \notin optional \/ r[g] # Undefined} |-> r[f]]

\* JSON.stringify(students): the only optional field is a record's reason
JsonStudents(list) ==
    [i \in DOMAIN list |->
        [list[i] EXCEPT !.attendanceHistory =
            [k \in DOMAIN @ |-> JsonOptional(@[k], {"reason"})]]]

\* JSON.stringify(classes): the optional fields are a modification's type
\* and newInstructor
JsonClasses(list) ==
    [i \in DOMAIN list |->
        [list[i] EXCEPT !.modifications =
            [k \in DOMAIN @ |-> JsonOptional(@[k], {"type", "newInstructor"})]]]

\* prev => JSON.stringify(prev) !== JSON.stringify(dbValue) ? dbValue : prev
KeepIfSame(prev, dbValue, Json(_)) ==
    IF Json(prev) # Json(dbValue) THEN dbValue ELSE prev

\* loadData up to the end of the await: the flag is set and the store is read
LoadDataFetch ==
    /\ calls < MaxCalls
    /\ currentUser.academyId # Undefined
    /\ refresh.phase = "idle"
    /\ refresh' = [isPolling |-> TRUE, phase |-> "fetched",
                   snapshot |-> <<[students |-> db.students, classes |-> db.classes,
                                   events |-> db.events, settings |-> db.settings]>>]
    /\ lastCall' = [op |-> "loadData"]
    /\ calls' = calls + 1
    /\ UNCHANGED <<students, classes, events, scheduleEvents, academySettings,
                   currentUser, auth, route, now, effectPending, db>>

\* loadData after the await: what was read is set
LoadDataApply ==
    /\ refresh.phase = "fetched"
    /\ LET Same(x) == x
           snapshot == refresh.snapshot[1]
       IN  /\ students' = KeepIfSame(students, snapshot.students, JsonStudents)
           /\ classes' = KeepIfSame(classes, snapshot.classes, JsonClasses)
           /\ events' = KeepIfSame(events, snapshot.events, Same)
           /\ academySettings' = snapshot.settings
    /\ effectPending' = (effectPending \/ classes' # classes \/ events' # events)
    /\ refresh' = [isPolling |-> TRUE, phase |-> "applied", snapshot |-> <<>>]
    /\ UNCHANGED <<scheduleEvents, currentUser, auth, route, now, lastCall, calls, db>>

\* setTimeout(() => { isPollingRef.current = false }, 500)
LoadDataSettle ==
    /\ refresh.phase = "applied"
    /\ refresh' = Idle
    /\ UNCHANGED <<students, classes, events, scheduleEvents, academySettings,
                   currentUser, auth, route, now, effectPending, lastCall, calls, db>>

-----------------------------------------------------------------------------
(* Member and rank entry points that run the evaluator.                    *)

updateStudent(updatedStudent) ==
    /\ calls < MaxCalls
    /\ IF currentUser.role # "master"
       THEN students' = students /\ db' = Called(db)
       ELSE LET studentWithEligibility == checkPromotionEligibility(updatedStudent)
            IN  /\ students' = [i \in DOMAIN students |->
                       IF students[i].id = studentWithEligibility.id
                       THEN [studentWithEligibility EXCEPT !.balance = students[i].balance]
                       ELSE students[i]]
                /\ db' = SaveStudents(Called(db), <<studentWithEligibility>>)
    /\ lastCall' = [op |-> "updateStudent", student |-> updatedStudent]
    /\ calls' = calls + 1
    /\ UNCHANGED <<classes, events, scheduleEvents, academySettings, currentUser, auth, route, now,
                   effectPending, refresh>>

addRank(rank) ==
    /\ calls < MaxCalls
    /\ IF currentUser.role # "master"
       THEN academySettings' = academySettings /\ db' = Called(db)
       ELSE /\ academySettings' =
                   [academySettings EXCEPT !.ranks = Append(academySettings.ranks, rank)]
            /\ db' = SaveAcademySettings(Called(db), academySettings')
    /\ lastCall' = [op |-> "addRank", rank |-> rank]
    /\ calls' = calls + 1
    /\ UNCHANGED <<students, classes, events, scheduleEvents, currentUser, auth, route, now,
                   effectPending, refresh>>

deleteRank(id) ==
    /\ calls < MaxCalls
    /\ LET Other(r) == r.id # id
       IN  IF currentUser.role # "master"
           THEN academySettings' = academySettings /\ db' = Called(db)
           ELSE /\ academySettings' =
                       [academySettings EXCEPT !.ranks = Filter(academySettings.ranks, Other)]
                /\ db' = SaveAcademySettings(Called(db), academySettings')
    /\ lastCall' = [op |-> "deleteRank", id |-> id]
    /\ calls' = calls + 1
    /\ UNCHANGED <<students, classes, events, scheduleEvents, currentUser, auth, route, now,
                   effectPending, refresh>>

-----------------------------------------------------------------------------
(* Roster entry points.                                                    *)

\* await PulseService.deleteFullStudentData(id)
DeleteFullStudentData(store, id) ==
    LET Other(s) == s.id # id
    IN  [store EXCEPT !.students = Filter(@, Other),
                      !.saved = Append(@, "deleteFullStudentData")]

\* student always carries an id here; rejected is the PulseService call whose
\* promise rejects ("none": both resolve). A rejected saveStudents is outside
\* the try block: the handler stops there and no toast is added
AddStudentCalls == <<"saveStudents", "createStudentAccountFromMaster">>

addStudent(student, rejected) ==
    /\ calls < MaxCalls
    /\ ~effectPending
    /\ IF currentUser.role # "master"
       THEN /\ students' = students
            /\ db' = Called(db)
            /\ lastCall' = [op |-> "addStudent", student |-> student,
                            rejected |-> rejected, toast |-> "none"]
       ELSE LET finalStudent == Spread(student,
                    [id |-> student.id, userId |-> student.id,
                     academyId |-> currentUser.academyId, attendanceHistory |-> <<>>,
                     balance |-> 0, status |-> "active"])
            IN  /\ students' = Append(students, finalStudent)
                /\ db' = IF rejected = "saveStudents" THEN Called(db)
                          ELSE SaveStudents(Called(db), <<finalStudent>>)
                /\ lastCall' = [op |-> "addStudent", student |-> student,
                                rejected |-> rejected,
                                toast |-> IF rejected = "saveStudents" THEN "none"
                                          ELSE IF rejected = "none" THEN "success"
                                          ELSE "info"]
    /\ calls' = calls + 1
    /\ UNCHANGED <<classes, events, scheduleEvents, academySettings, currentUser, auth, route, now,
                   effectPending, refresh>>

updateStudentProfile(studentId, updates) ==
    /\ calls < MaxCalls
    /\ ~effectPending
    /\ LET isOwner == currentUser.studentId = studentId
           isMaster == currentUser.role = "master"
           IsStudent(s) == s.id = studentId
           targetIndex == FindIndex(students, IsStudent)
       IN  IF (~isOwner /\ ~isMaster) \/ targetIndex = 0
           THEN students' = students /\ db' = Called(db)
           ELSE LET updatedStudent == Spread(students[targetIndex], updates)
                IN  /\ students' = [i \in DOMAIN students |->
                           IF students[i].id = studentId THEN updatedStudent
                           ELSE students[i]]
                    /\ db' = SaveStudents(Called(db), <<updatedStudent>>)
    /\ lastCall' = [op |-> "updateStudentProfile", studentId |-> studentId,
                    updates |-> updates]
    /\ calls' = calls + 1
    /\ UNCHANGED <<classes, events, scheduleEvents, academySettings, currentUser, auth, route, now,
                   effectPending, refresh>>

\* new Map(prev.map(s => [s.id, s])), then set(s.id, s) for each update:
\* a member of a known id is replaced where it is, a new one goes to the end
batchUpdateStudents(updatedStudents) ==
    /\ calls < MaxCalls
    /\ ~effectPending
    /\ students' = UpsertAll(students, updatedStudents)
    /\ db' = SaveStudents(Called(db), updatedStudents)
    /\ lastCall' = [op |-> "batchUpdateStudents", students |-> updatedStudents]
    /\ calls' = calls + 1
    /\ UNCHANGED <<classes, events, scheduleEvents, academySettings, currentUser, auth, route, now,
                   effectPending, refresh>>

\* Math.max(0, n - 1)
Decrement(n) == IF n - 1 > 0 THEN n - 1 ELSE 0

\* newClasses of deleteStudent: the member's id taken off every roster
StrippedClasses(id) ==
    LET OtherId(sid) == sid # id
    IN  [i \in DOMAIN classes |->
            IF Includes(classes[i].studentIds, id)
            THEN [classes[i] EXCEPT !.studentIds = Filter(@, OtherId),
                                    !.studentCount = Decrement(@)]
            ELSE classes[i]]

\* the events left as they are
UnstrippedEvents(id) == events

\* newEvents of deleteStudent: the member's id taken off every registrant list
StrippedEvents(id) ==
    LET OtherId(sid) == sid # id
    IN  [i \in DOMAIN events |->
            IF Includes(events[i].registrants, id)
            THEN [events[i] EXCEPT !.registrants = Filter(@, OtherId),
                                   !.registeredCount = Decrement(@)]
            ELSE events[i]]

\* the PulseService calls of deleteStudent, in the order it awaits them
DeleteStudentCalls == <<"deleteFullStudentData", "saveClasses", "saveEvents">>

\* rejected is the PulseService call whose promise rejects ("none": all
\* resolve); the handler stops at the await of that call
deleteStudent(id, rejected) ==
    /\ calls < MaxCalls
    /\ ~effectPending
    /\ IF currentUser.role # "master"
       THEN /\ UNCHANGED <<students, classes, events, effectPending>>
            /\ db' = Called(db)
       ELSE LET OtherStudent(s) == s.id # id
                deleted == DeleteFullStudentData(Called(db), id)
                classesSaved == SaveClasses(deleted, StrippedClasses(id))
            IN  IF rejected = "deleteFullStudentData"
                THEN /\ UNCHANGED <<students, classes, events, effectPending>>
                     /\ db' = Called(db)
                ELSE IF rejected = "saveClasses"
                THEN /\ students' = Filter(students, OtherStudent)
                     /\ classes' = StrippedClasses(id)
                     /\ events' = events
                     /\ effectPending' = TRUE
                     /\ db' = deleted
                ELSE /\ students' = Filter(students, OtherStudent)
                     /\ classes' = StrippedClasses(id)
                     /\ events' = StrippedEvents(id)
                     /\ effectPending' = TRUE
                     /\ db' = IF rejected = "saveEvents" THEN classesSaved
                               ELSE SaveEvents(classesSaved, StrippedEvents(id))
    /\ lastCall' = [op |-> "deleteStudent", id |-> id, rejected |-> rejected]
    /\ calls' = calls + 1
    /\ UNCHANGED <<scheduleEvents, academySettings, currentUser, auth, route, now, refresh>>

updateStudentStatus(id, status) ==
    /\ calls < MaxCalls
    /\ ~effectPending
    /\ LET IsStudent(s) == s.id = id
           targetIndex == FindIndex(students, IsStudent)
       IN  IF currentUser.role # "master" \/ targetIndex = 0
           THEN students' = students /\ db' = Called(db)
           ELSE LET updated == [students[targetIndex] EXCEPT !.status = status]
                IN  /\ students' = [i \in DOMAIN students |->
                           IF students[i].id = id THEN updated ELSE students[i]]
                    /\ db' = SaveStudents(Called(db), <<updated>>)
    /\ lastCall' = [op |-> "updateStudentStatus", id |-> id, status |-> status]
    /\ calls' = calls + 1
    /\ UNCHANGED <<classes, events, scheduleEvents, academySettings, currentUser, auth, route, now,
                   effectPending, refresh>>

-----------------------------------------------------------------------------
(* Class, event and settings entry points.                                 *)

\* newClass always carries an id here
addClass(newClass) ==
    /\ calls < MaxCalls
    /\ ~effectPending
    /\ IF currentUser.role # "master"
       THEN UNCHANGED <<classes, effectPending>> /\ db' = Called(db)
       ELSE LET cls == Spread(newClass, [id |-> newClass.id,
                                         academyId |-> currentUser.academyId])
            IN  /\ classes' = Append(classes, cls)
                /\ effectPending' = TRUE
                /\ db' = SaveClasses(Called(db), <<cls>>)
    /\ lastCall' = [op |-> "addClass", class |-> newClass]
    /\ calls' = calls + 1
    /\ UNCHANGED <<students, events, scheduleEvents, academySettings, currentUser, auth, route, now,
                   refresh>>

updateClass(updatedClass) ==
    /\ calls < MaxCalls
    /\ ~effectPending
    /\ IF currentUser.role # "master"
       THEN UNCHANGED <<classes, effectPending>> /\ db' = Called(db)
       ELSE /\ classes' = [i \in DOMAIN classes |->
                   IF classes[i].id = updatedClass.id THEN updatedClass ELSE classes[i]]
            /\ effectPending' = TRUE
            /\ db' = SaveClasses(Called(db), <<updatedClass>>)
    /\ lastCall' = [op |-> "updateClass", class |-> updatedClass]
    /\ calls' = calls + 1
    /\ UNCHANGED <<students, events, scheduleEvents, academySettings, currentUser, auth, route, now,
                   refresh>>

\* the class is removed from the provider only: the service has no delete
deleteClass(id) ==
    /\ calls < MaxCalls
    /\ ~effectPending
    /\ IF currentUser.role # "master"
       THEN UNCHANGED <<students, classes, effectPending>> /\ db' = Called(db)
       ELSE LET OtherClass(c) == c.id # id
                OtherId(cid) == cid # id
                newStudents == [i \in DOMAIN students |->
                    [students[i] EXCEPT !.classesId = Filter(@, OtherId)]]
            IN  /\ classes' = Filter(classes, OtherClass)
                /\ students' = newStudents
                /\ effectPending' = TRUE
                /\ db' = SaveStudents(Called(db), newStudents)
    /\ lastCall' = [op |-> "deleteClass", id |-> id]
    /\ calls' = calls + 1
    /\ UNCHANGED <<events, scheduleEvents, academySettings, currentUser, auth, route, now, refresh>>

enrollStudent(studentId, classId) ==
    /\ calls < MaxCalls
    /\ ~effectPending
    /\ IF currentUser.role # "master"
       THEN UNCHANGED <<students, classes, effectPending>> /\ db' = Called(db)
       ELSE LET ClassUpdated(c) == c.id = classId /\ ~Includes(c.studentIds, studentId)
                StudentUpdated(s) == s.id = studentId /\ ~Includes(s.classesId, classId)
                newClasses == [i \in DOMAIN classes |->
                    IF ClassUpdated(classes[i])
                    THEN [classes[i] EXCEPT !.studentIds = Append(@, studentId),
                                            !.studentCount = @ + 1]
                    ELSE classes[i]]
                newStudents == [i \in DOMAIN students |->
                    IF StudentUpdated(students[i])
                    THEN [students[i] EXCEPT !.classesId = Append(@, classId)]
                    ELSE students[i]]
                classIndex == FindIndex(classes, ClassUpdated)
                studentIndex == FindIndex(students, StudentUpdated)
                afterClasses == IF classIndex = 0 THEN Called(db)
                                ELSE SaveClasses(Called(db), <<newClasses[classIndex]>>)
            IN  /\ classes' = newClasses
                /\ students' = newStudents
                /\ effectPending' = TRUE
                /\ db' = IF studentIndex = 0 THEN afterClasses
                          ELSE SaveStudents(afterClasses, <<newStudents[studentIndex]>>)
    /\ lastCall' = [op |-> "enrollStudent", studentId |-> studentId, classId |-> classId]
    /\ calls' = calls + 1
    /\ UNCHANGED <<events, scheduleEvents, academySettings, currentUser, auth, route, now, refresh>>

unenrollStudent(studentId, classId) ==
    /\ calls < MaxCalls
    /\ ~effectPending
    /\ IF currentUser.role # "master"
       THEN UNCHANGED <<students, classes, effectPending>> /\ db' = Called(db)
       ELSE LET IsClass(c) == c.id = classId
                IsStudent(s) == s.id = studentId
                OtherStudent(id) == id # studentId
                OtherClass(id) == id # classId
                newClasses == [i \in DOMAIN classes |->
                    IF IsClass(classes[i])
                    THEN [classes[i] EXCEPT !.studentIds = Filter(@, OtherStudent),
                                            !.studentCount = Decrement(@)]
                    ELSE classes[i]]
                newStudents == [i \in DOMAIN students |->
                    IF IsStudent(students[i])
                    THEN [students[i] EXCEPT !.classesId = Filter(@, OtherClass)]
                    ELSE students[i]]
                classIndex == FindIndex(classes, IsClass)
                studentIndex == FindIndex(students, IsStudent)
                afterClasses == IF classIndex = 0 THEN Called(db)
                                ELSE SaveClasses(Called(db), <<newClasses[classIndex]>>)
            IN  /\ classes' = newClasses
                /\ students' = newStudents
                /\ effectPending' = TRUE
                /\ db' = IF studentIndex = 0 THEN afterClasses
                          ELSE SaveStudents(afterClasses, <<newStudents[studentIndex]>>)
    /\ lastCall' = [op |-> "unenrollStudent", studentId |-> studentId,
                    classId |-> classId]
    /\ calls' = calls + 1
    /\ UNCHANGED <<events, scheduleEvents, academySettings, currentUser, auth, route, now, refresh>>

\* Array.from(new Set(arr)): the first occurrence of each value, in order
RECURSIVE Dedupe(_)
Dedupe(arr) ==
    IF arr = <<>> THEN <<>>
    ELSE LET init == Dedupe(SubSeq(arr, 1, Len(arr) - 1))
             last == arr[Len(arr)]
         IN  IF Includes(init, last) THEN init ELSE Append(init, last)

\* students.filter(s => s.status === 'exam_ready').map(s => s.id)
ReadyStudents ==
    LET IsReady(s) == s.status = "exam_ready"
        ready == Filter(students, IsReady)
    IN  [i \in DOMAIN ready |-> ready[i].id]

\* the event addEvent stores; the event always carries an id and registrants here
NewEvent(event) ==
    LET initialRegistrants ==
            IF event.type = "exam" THEN Dedupe(event.registrants \o ReadyStudents)
            ELSE event.registrants
    IN  Spread(event, [id |-> event.id, academyId |-> currentUser.academyId,
                       registrants |-> initialRegistrants,
                       registeredCount |-> Len(initialRegistrants)])

AddEventEffect(event) ==
    IF currentUser.role # "master"
    THEN UNCHANGED <<events, effectPending>> /\ db' = Called(db)
    ELSE /\ events' = Append(events, NewEvent(event))
         /\ effectPending' = TRUE
         /\ db' = SaveEvents(Called(db), <<NewEvent(event)>>)

addEvent(event) ==
    /\ calls < MaxCalls
    /\ ~effectPending
    /\ AddEventEffect(event)
    /\ lastCall' = [op |-> "addEvent", event |-> event]
    /\ calls' = calls + 1
    /\ UNCHANGED <<students, classes, scheduleEvents, academySettings, currentUser, auth, route, now,
                   refresh>>

addCalendarEvent(event) ==
    /\ calls < MaxCalls
    /\ ~effectPending
    /\ IF event.type # "class" THEN AddEventEffect(event)
       ELSE UNCHANGED <<events, effectPending>> /\ db' = Called(db)
    /\ lastCall' = [op |-> "addCalendarEvent", event |-> event]
    /\ calls' = calls + 1
    /\ UNCHANGED <<students, classes, scheduleEvents, academySettings, currentUser, auth, route, now,
                   refresh>>

updateEvent(updatedEvent) ==
    /\ calls < MaxCalls
    /\ ~effectPending
    /\ IF currentUser.role # "master"
       THEN UNCHANGED <<events, effectPending>> /\ db' = Called(db)
       ELSE /\ events' = [i \in DOMAIN events |->
                   IF events[i].id = updatedEvent.id THEN updatedEvent ELSE events[i]]
            /\ effectPending' = TRUE
            /\ db' = SaveEvents(Called(db), <<updatedEvent>>)
    /\ lastCall' = [op |-> "updateEvent", event |-> updatedEvent]
    /\ calls' = calls + 1
    /\ UNCHANGED <<students, classes, scheduleEvents, academySettings, currentUser, auth, route, now,
                   refresh>>

\* the event is removed from the provider only: the service has no delete
DeleteEventEffect(id) ==
    LET OtherEvent(e) == e.id # id
    IN  IF currentUser.role # "master"
        THEN UNCHANGED <<events, effectPending>> /\ db' = Called(db)
        ELSE /\ events' = Filter(events, OtherEvent)
             /\ effectPending' = TRUE
             /\ db' = Called(db)

deleteEvent(id) ==
    /\ calls < MaxCalls
    /\ ~effectPending
    /\ DeleteEventEffect(id)
    /\ lastCall' = [op |-> "deleteEvent", id |-> id]
    /\ calls' = calls + 1
    /\ UNCHANGED <<students, classes, scheduleEvents, academySettings, currentUser, auth, route, now,
                   refresh>>

\* An id is [eventId |-> id], or [classId |-> c, dateStr |-> d] for the instance id
\* `${c}-${d}` that id.split(/-(?=\d{4}-\d{2}-\d{2})/) takes apart.
IsInstanceId(id) == "classId" \in DOMAIN id

CancelOf(id) ==
    [date |-> id.dateStr, type |-> "cancel", newDate |-> NoString,
     newStartTime |-> NoString, newEndTime |-> NoString, newInstructor |-> Undefined]

deleteCalendarEvent(id) ==
    /\ ~effectPending
    /\ IF IsInstanceId(id)
       THEN /\ ModifiedLength(id.classId, CancelOf(id)) <= MaxModifications
            /\ ModifyClassSessionEffect(id.classId, CancelOf(id))
            /\ UNCHANGED events
       ELSE LET IsEvent(e) == e.id = id.eventId
            IN  IF FindIndex(events, IsEvent) # 0
                THEN DeleteEventEffect(id.eventId) /\ UNCHANGED classes
                ELSE UNCHANGED <<classes, events, effectPending>> /\ db' = Called(db)
    /\ UNCHANGED <<students, scheduleEvents, academySettings, currentUser, auth, route, now,
                   lastCall, calls, refresh>>

\* { ...event, registrants: [...], registeredCount: ... } for an event that
\* find() did not return: a record of these two properties and no id
Unregistered == [id |-> Undefined, registrants |-> <<>>, registeredCount |-> 0]

registerForEvent(studentId, eventId) ==
    /\ calls < MaxCalls
    /\ ~effectPending
    /\ LET IsEvent(e) == e.id = eventId
           index == FindIndex(events, IsEvent)
           event == IF index = 0 THEN Unregistered ELSE events[index]
           updated == Spread(event, [registrants |-> Append(event.registrants, studentId),
                                     registeredCount |-> event.registeredCount + 1])
       IN  IF index # 0 /\ event.type = "exam" /\ currentUser.role # "master"
           THEN UNCHANGED <<events, effectPending>> /\ db' = Called(db)
           ELSE /\ events' = [i \in DOMAIN events |->
                       IF events[i].id = eventId THEN updated ELSE events[i]]
                /\ effectPending' = TRUE
                /\ db' = SaveEvents(Called(db), <<updated>>)
    /\ lastCall' = [op |-> "registerForEvent", studentId |-> studentId,
                    eventId |-> eventId]
    /\ calls' = calls + 1
    /\ UNCHANGED <<students, classes, scheduleEvents, academySettings, currentUser, auth, route, now,
                   refresh>>

updateEventRegistrants(eventId, studentIds) ==
    /\ calls < MaxCalls
    /\ ~effectPending
    /\ LET IsEvent(e) == e.id = eventId
           index == FindIndex(events, IsEvent)
       IN  IF currentUser.role # "master" \/ index = 0
           THEN UNCHANGED <<events, effectPending>> /\ db' = Called(db)
           ELSE LET updated == Spread(events[index],
                                      [registrants |-> studentIds,
                                       registeredCount |-> Len(studentIds)])
                IN  /\ events' = [i \in DOMAIN events |->
                            IF events[i].id = eventId THEN updated ELSE events[i]]
                    /\ effectPending' = TRUE
                    /\ db' = SaveEvents(Called(db), <<updated>>)
    /\ lastCall' = [op |-> "updateEventRegistrants", eventId |-> eventId,
                    studentIds |-> studentIds]
    /\ calls' = calls + 1
    /\ UNCHANGED <<students, classes, scheduleEvents, academySettings, currentUser, auth, route, now,
                   refresh>>

updateAcademySettings(settings) ==
    /\ calls < MaxCalls
    /\ ~effectPending
    /\ IF currentUser.role # "master"
       THEN UNCHANGED academySettings /\ db' = Called(db)
       ELSE /\ academySettings' = settings
            /\ db' = SaveAcademySettings(Called(db), settings)
    /\ lastCall' = [op |-> "updateAcademySettings", settings |-> settings]
    /\ calls' = calls + 1
    /\ UNCHANGED <<students, classes, events, scheduleEvents, currentUser, auth, route, now,
                   effectPending, refresh>>

-----------------------------------------------------------------------------
(* Data the machines start from and the inputs the calls are drawn from.   *)

Statuses == {"active", "debtor", "exam_ready", "suspended"}

Rank(id, name, requiredAttendance) ==
    [id |-> id, name |-> name, requiredAttendance |-> requiredAttendance]

Ranks0 == <<Rank("r1", "White", 2), Rank("r2", "Yellow", 3)>>

Record(date, classId, status, reason) ==
    [date |-> date, classId |-> classId, status |-> status,
     timestamp |-> ParseDate(date), reason |-> reason]

\* a member whose cached aggregates agree with the history
Student(id, rankIndex, status, history) ==
    LET lastIndex == FindIndex(history, IsPresentOrLate)
    IN  [id |-> id, rank |-> Ranks0[rankIndex].name, rankId |-> Ranks0[rankIndex].id,
         attendance |-> Len(SelectSeq(history, IsPresentOrLate)),
         attendanceHistory |-> history,
         lastAttendance |-> IF lastIndex >= 1 THEN history[lastIndex].date ELSE NoString,
         status |-> status, promotionHistory |-> <<>>, balance |-> 0,
         classesId |-> <<>>]

Class(id, studentIds, startTime, modifications) ==
    [id |-> id, name |-> "Kids", instructor |-> "Ana",
     days |-> <<"Monday", "Wednesday">>, startTime |-> startTime, endTime |-> <<17, 0>>,
     modifications |-> modifications, studentIds |-> studentIds,
     studentCount |-> Len(studentIds)]

Master == [role |-> "master", studentId |-> Undefined, academyId |-> "a1"]

Monday0 == <<2024, 6, 10>>
Today0 == FormatDate(Now0)

StudentIds == {"s1", "s2", "sX"}
ClassIds == {"c1", "c2", "cX"}
MarkDates == {NoString, Monday0}
MarkInputs ==
    {[status |-> "present", reason |-> Undefined],
     [status |-> "late", reason |-> Undefined],
     [status |-> "excused", reason |-> "sick"],
     [status |-> "excused", reason |-> Undefined],
     [status |-> "absent", reason |-> Undefined],
     [status |-> Undefined, reason |-> Undefined]}

-----------------------------------------------------------------------------
(* The ledger machine: markAttendance, bulkMarkPresent, promoteStudent.    *)

LedgerInit ==
    /\ \E h1 \in {<<>>, <<Record(Monday0, "c1", "present", Undefined)>>,
                   <<Record(Today0, "c1", "late", Undefined),
                     Record(Monday0, "c1", "present", Undefined)>>},
          h2 \in {<<>>, <<Record(Today0, "c1", "excused", "sick")>>} :
          students = <<Student("s1", 1, "active", h1), Student("s2", 2, "debtor", h2)>>
    /\ classes = <<Class("c1", <<"s1", "s2">>, <<16, 0>>, <<>>),
                   Class("c2", <<"s1">>, <<16, 0>>, <<>>)>>
    /\ events = <<>>
    /\ scheduleEvents = <<>>
    /\ effectPending = TRUE
    /\ academySettings = [ranks |-> Ranks0]
    /\ currentUser = Master
    /\ now = Now0
    /\ lastCall = [op |-> "none"]
    /\ calls = 0
    /\ db = StoreOf(students, classes, events, academySettings)
    /\ refresh = Idle
    /\ auth = SignedInAuth(currentUser)
    /\ route = NotRendered

LedgerNext ==
    \/ \E studentId \in StudentIds, date \in MarkDates, input \in MarkInputs :
          markAttendance(studentId, "c1", date, input.status, input.reason)
    \/ \E classId \in ClassIds, date \in MarkDates : bulkMarkPresent(classId, date)
    \/ \E studentId \in StudentIds : promoteStudent(studentId)
    \/ Tick

LedgerSpec == LedgerInit /\ [][LedgerNext]_vars

-----------------------------------------------------------------------------
(* The evaluator machine: updateStudent runs checkPromotionEligibility on  *)
(* the member it is handed; addRank and deleteRank change the rank list.   *)

StudentUser == [role |-> "student", studentId |-> "s1", academyId |-> "a1"]

\* the members the evaluator is applied to
EvalStudents ==
    {[id |-> id, rank |-> "White", rankId |-> rankId, attendance |-> attendance,
      attendanceHistory |-> <<>>, lastAttendance |-> NoString, status |-> status,
      promotionHistory |-> <<>>, balance |-> 100, classesId |-> <<>>] :
        id \in {"s1"}, rankId \in {"r1", "r2", "r9"},
        attendance \in 0..MaxAttendance, status \in Statuses}

RankInputs == {Rank("r1", "White", 1), Rank("r2", "Yellow", 3), Rank("r9", "Black", 0)}

EvalInit ==
    /\ students = <<Student("s1", 1, "active", <<>>)>>
    /\ classes = <<>>
    /\ events = <<>>
    /\ scheduleEvents = <<>>
    /\ effectPending = FALSE
    /\ academySettings = [ranks |-> Ranks0]
    /\ currentUser \in {Master, StudentUser}
    /\ now = Now0
    /\ lastCall = [op |-> "none"]
    /\ calls = 0
    /\ db = StoreOf(students, classes, events, academySettings)
    /\ refresh = Idle
    /\ auth = SignedInAuth(currentUser)
    /\ route = NotRendered

EvalNext ==
    \/ \E student \in EvalStudents : updateStudent(student)
    \/ \E rank \in RankInputs : addRank(rank)
    \/ \E id \in {"r1", "r2"} : deleteRank(id)

EvalSpec == EvalInit /\ [][EvalNext]_vars

-----------------------------------------------------------------------------
(* The calendar machine: modifyClassSession, updateCalendarEvent and the   *)
(* schedule effect, for one class that meets on Mondays and Wednesdays.    *)

Monday1 == <<2024, 6, 3>>
Wednesday1 == <<2024, 6, 5>>
Thursday1 == <<2024, 6, 6>>
\* the day after the last day of the window of Now0
AfterWindow == FormatDate(endWindow(Now0) + 1)

Modification(date, type, newDate, overrides) ==
    [date |-> date, type |-> type, newDate |-> newDate,
     newStartTime |-> overrides.newStartTime, newEndTime |-> overrides.newEndTime,
     newInstructor |-> overrides.newInstructor]

NoOverrides ==
    [newStartTime |-> NoString, newEndTime |-> NoString, newInstructor |-> Undefined]
AllOverrides ==
    [newStartTime |-> <<18, 0>>, newEndTime |-> <<19, 30>>, newInstructor |-> "Bea"]
InstructorOnly ==
    [newStartTime |-> NoString, newEndTime |-> NoString, newInstructor |-> "Carl"]

ModificationInputs ==
    {Modification(date, "move", newDate, overrides) :
        date \in {Monday1, Wednesday1},
        newDate \in {Wednesday1, Thursday1, AfterWindow},
        overrides \in {NoOverrides, AllOverrides}}
    \cup {Modification(date, "cancel", NoString, NoOverrides) :
            date \in {Monday1, Wednesday1, Thursday1}}
    \cup {Modification(Wednesday1, "rescheduled", NoString, AllOverrides),
          Modification(Monday1, "instructor", NoString, InstructorOnly)}

\* new Date(y, m - 1, d, h, min)
DateTime(dateStr, h, min) == <<ParseDate(dateStr) * 1440 + h * 60 + min>>

UpdateInputs ==
    {[classId |-> "c1", start |-> DateTime(Wednesday1, 18, 0),
      end |-> DateTime(Wednesday1, 19, 30), instructor |-> "Bea", status |-> "rescheduled"],
     [classId |-> "c1", start |-> DateTime(Monday1, 16, 0), status |-> "cancelled"],
     [classId |-> "cX", start |-> DateTime(Monday1, 9, 15), instructor |-> "Carl"],
     [title |-> "Exam (moved)", time |-> <<11, 0>>]}

Event0 ==
    [id |-> "e1", title |-> "Exam", date |-> <<2024, 6, 15>>, time |-> <<10, 0>>,
     type |-> "exam", registrants |-> <<>>, registeredCount |-> 0]

CalendarInit ==
    /\ now = Now0
    /\ students = <<>>
    /\ \E startTime \in {<<16, 0>>, NoString} :
          classes = <<Class("c1", <<>>, startTime, <<>>)>>
    /\ events = <<Event0>>
    /\ scheduleEvents = calculateCalendarEvents(classes, events)
    /\ effectPending = FALSE
    /\ academySettings = [ranks |-> Ranks0]
    /\ currentUser \in {Master, StudentUser}
    /\ lastCall = [op |-> "none"]
    /\ calls = 0
    /\ db = StoreOf(students, classes, events, academySettings)
    /\ refresh = Idle
    /\ auth = SignedInAuth(currentUser)
    /\ route = NotRendered

CalendarNext ==
    \/ \E modification \in ModificationInputs : modifyClassSession("c1", modification)
    \/ modifyClassSession("cX", Modification(Monday1, "cancel", NoString, NoOverrides))
    \/ \E id \in {"e1", "eX"}, updates \in UpdateInputs : updateCalendarEvent(id, updates)
    \/ ScheduleEffect

CalendarSpec == CalendarInit /\ [][CalendarNext]_vars

-----------------------------------------------------------------------------
(* The refresh machine: one loadData at a time (refreshData), interleaved  *)
(* with entry points that change students, classes and events.             *)

EventUpdate == [title |-> "Exam (moved)", time |-> <<11, 0>>]

RefreshInit ==
    /\ now = Now0
    /\ \E h1 \in {<<>>, <<Record(Monday0, "c1", "present", Undefined)>>} :
          students = <<Student("s1", 1, "active", h1)>>
    /\ classes = <<Class("c1", <<"s1">>, <<16, 0>>, <<>>)>>
    /\ events = <<Event0>>
    /\ scheduleEvents = calculateCalendarEvents(classes, events)
    /\ effectPending = FALSE
    /\ academySettings = [ranks |-> Ranks0]
    /\ currentUser = Master
    /\ lastCall = [op |-> "none"]
    /\ calls = 0
    /\ db = StoreOf(students, classes, events, academySettings)
    /\ refresh = Idle
    /\ auth = SignedInAuth(currentUser)
    /\ route = NotRendered

RefreshNext ==
    \/ LoadDataFetch
    \/ LoadDataApply
    \/ LoadDataSettle
    \/ \E status \in {"present", "excused", Undefined} :
          markAttendance("s1", "c1", NoString, status, Undefined)
    \/ modifyClassSession("c1", Modification(Monday1, "cancel", NoString, NoOverrides))
    \/ updateCalendarEvent("e1", EventUpdate)
    \/ ScheduleEffect

RefreshSpec == RefreshInit /\ [][RefreshNext]_vars

-----------------------------------------------------------------------------
(* The roster machine: every entry point that writes students, classes,    *)
(* events or settings, called by the master or by the student s1.          *)

Enrolled(student, classIds) == [student EXCEPT !.classesId = classIds]

Event1 ==
    [id |-> "e2", title |-> "Seminar", date |-> <<2024, 6, 22>>, time |-> <<9, 0>>,
     type |-> "seminar", registrants |-> <<"s1">>, registeredCount |-> 1]

RosterInit ==
    /\ now = Now0
    /\ students = <<Enrolled(Student("s1", 1, "active", <<>>), <<"c1">>),
                    Enrolled(Student("s2", 1, "exam_ready",
                                     <<Record(Monday0, "c1", "present", Undefined),
                                       Record(Monday1, "c1", "late", Undefined)>>),
                             <<>>)>>
    /\ classes = <<Class("c1", <<"s1">>, <<16, 0>>, <<>>)>>
    /\ events = <<[Event0 EXCEPT !.registrants = <<"s1">>, !.registeredCount = 1]>>
    /\ scheduleEvents = calculateCalendarEvents(classes, events)
    /\ effectPending = FALSE
    /\ academySettings = [ranks |-> Ranks0]
    /\ currentUser \in {Master, StudentUser}
    /\ lastCall = [op |-> "none"]
    /\ calls = 0
    /\ db = StoreOf(students, classes, events, academySettings)
    /\ refresh = Idle
    /\ auth = SignedInAuth(currentUser)
    /\ route = NotRendered

RosterNext ==
    \/ \E rejected \in {"none", "createStudentAccountFromMaster"} :
          addStudent(Student("s3", 1, "suspended", <<>>), rejected)
    \/ updateStudent([Student("s1", 1, "active", <<>>) EXCEPT !.attendance = 2])
    \/ \E studentId \in {"s1", "s2"} :
          updateStudentProfile(studentId, [phone |-> "555"])
    \/ batchUpdateStudents(<<Student("s1", 2, "active", <<>>)>>)
    \/ deleteStudent("s1", "none")
    \/ updateStudentStatus("s1", "suspended")
    \/ promoteStudent("s2")
    \/ addClass(Class("c2", <<>>, <<18, 0>>, <<>>))
    \/ updateClass([Class("c1", <<"s1">>, <<16, 0>>, <<>>) EXCEPT !.name = "Teens"])
    \/ modifyClassSession("c1", Modification(Wednesday1, "cancel", NoString, NoOverrides))
    \/ deleteClass("c1")
    \/ enrollStudent("s2", "c1")
    \/ unenrollStudent("s1", "c1")
    \/ addEvent(Event1)
    \/ addCalendarEvent([Event1 EXCEPT !.type = "exam"])
    \/ updateEvent([Event0 EXCEPT !.title = "Exam (moved)"])
    \/ updateCalendarEvent("c1", [classId |-> "c1", start |-> DateTime(Wednesday1, 16, 0),
                                   status |-> "cancelled"])
    \/ deleteEvent("e1")
    \/ \E id \in {[eventId |-> "e1"], [classId |-> "c1", dateStr |-> Wednesday1]} :
          deleteCalendarEvent(id)
    \/ updateEventRegistrants("e1", <<"s2">>)
    \/ updateAcademySettings([ranks |-> <<Rank("r1", "White", 1)>>])
    \/ addRank(Rank("r3", "Green", 4))
    \/ deleteRank("r2")
    \/ ScheduleEffect

RosterSpec == RosterInit /\ [][RosterNext]_vars

-----------------------------------------------------------------------------
(* addStudent alone, each of its two PulseService calls in turn rejecting  *)
(* (OutcomeSpec).                                                          *)

Rejected == {"none"} \cup {AddStudentCalls[k] : k \in DOMAIN AddStudentCalls}

NewStudents == {Student(id, 1, "suspended", <<>>) : id \in {"s3", "s4", "s5", "s6"}}

OutcomeInit ==
    /\ now = Now0
    /\ students = <<Student("s1", 1, "active", <<>>)>>
    /\ classes = <<>>
    /\ events = <<>>
    /\ scheduleEvents = calculateCalendarEvents(classes, events)
    /\ effectPending = FALSE
    /\ academySettings = [ranks |-> Ranks0]
    /\ currentUser \in {Master, StudentUser}
    /\ lastCall = [op |-> "none"]
    /\ calls = 0
    /\ db = StoreOf(students, classes, events, academySettings)
    /\ refresh = Idle
    /\ auth = SignedInAuth(currentUser)
    /\ route = NotRendered

OutcomeNext ==
    \E student \in NewStudents, rejected \in Rejected : addStudent(student, rejected)

OutcomeSpec == OutcomeInit /\ [][OutcomeNext]_vars

-----------------------------------------------------------------------------
(* The first run of the schedule effect, for each clock value of a leap    *)
(* year (WindowSpec).                                                      *)

\* the clock values the provider is mounted at: the days of 2024
ClockDays == DaysFromCivil(2024, 1, 1)..DaysFromCivil(2024, 12, 31)

\* on mount scheduleEvents is useState([]) and the effect has yet to run
WindowInit ==
    /\ now \in ClockDays
    /\ students = <<>>
    /\ classes = <<Class("c1", <<>>, <<16, 0>>, <<>>)>>
    /\ events = <<>>
    /\ scheduleEvents = <<>>
    /\ effectPending = TRUE
    /\ academySettings = [ranks |-> Ranks0]
    /\ currentUser = Master
    /\ lastCall = [op |-> "none"]
    /\ calls = 0
    /\ db = StoreOf(students, classes, events, academySettings)
    /\ refresh = Idle
    /\ auth = SignedInAuth(currentUser)
    /\ route = NotRendered

WindowNext == ScheduleEffect

WindowSpec == WindowInit /\ [][WindowNext]_vars

-----------------------------------------------------------------------------
(* Two member entry points called from one render (SnapshotSpec). Both     *)
(* closures hold the students of that render; each passes a whole list to  *)
(* setStudents, and the list set last is the state of the next render.     *)

\* whether the call reaches its setStudents
SetsStudents(call, snapshot) ==
    IF call.op = "markAttendance" THEN TRUE
    ELSE /\ currentUser.role = "master"
         /\ \E i \in DOMAIN snapshot : snapshot[i].id = call.id

\* the member record the call builds from the snapshot's member s
MemberSetBy(call, s) ==
    IF call.op = "markAttendance"
    THEN IF s.id = call.studentId
         THEN checkPromotionEligibility(
                  MarkedStudent(s, IF call.date = NoString THEN getLocalDate
                                   ELSE call.date,
                                call.classId, call.status, call.reason))
         ELSE s
    ELSE IF s.id = call.id THEN [s EXCEPT !.status = call.status] ELSE s

\* newStudents: students.map(...) over the closure's students
StudentsSetBy(call, snapshot) ==
    [i \in DOMAIN snapshot |-> MemberSetBy(call, snapshot[i])]

\* the records the call hands to PulseService.saveStudents
ItemsSavedBy(call, snapshot) ==
    LET id == IF call.op = "markAttendance" THEN call.studentId ELSE call.id
        index == CHOOSE i \in DOMAIN snapshot : snapshot[i].id = id
    IN  IF ~SetsStudents(call, snapshot) THEN <<>>
        ELSE IF ~\E i \in DOMAIN snapshot : snapshot[i].id = id THEN <<>>
        ELSE IF call.op = "markAttendance"
             THEN <<MarkedStudent(snapshot[index],
                                  IF call.date = NoString THEN getLocalDate
                                  ELSE call.date,
                                  call.classId, call.status, call.reason)>>
             ELSE <<[snapshot[index] EXCEPT !.status = call.status]>>

\* store after the call's save, if it saves
SavedBy(store, call, snapshot) ==
    IF ItemsSavedBy(call, snapshot) = <<>> THEN store
    ELSE SaveStudents(store, ItemsSavedBy(call, snapshot))

\* first and second are called in this order before the provider renders
\* again: each runs up to its await on the same closure
sameRender(first, second) ==
    /\ calls + 2 <= MaxCalls
    /\ ~effectPending
    /\ students' = IF SetsStudents(second, students) THEN StudentsSetBy(second, students)
                   ELSE IF SetsStudents(first, students)
                        THEN StudentsSetBy(first, students)
                        ELSE students
    /\ db' = SavedBy(SavedBy(Called(db), first, students), second, students)
    /\ lastCall' = [op |-> "sameRender", first |-> first, second |-> second]
    /\ calls' = calls + 2
    /\ UNCHANGED <<classes, events, scheduleEvents, academySettings, currentUser, auth, route, now,
                   effectPending, refresh>>

MemberCalls ==
    {[op |-> "markAttendance", studentId |-> studentId, classId |-> "c1",
      date |-> NoString, status |-> status, reason |-> Undefined] :
        studentId \in {"s1", "s2"}, status \in {"present", "absent", Undefined}}
    \cup {[op |-> "updateStudentStatus", id |-> id, status |-> status] :
              id \in {"s1", "s2"}, status \in {"suspended", "debtor"}}

SnapshotInit ==
    /\ now = Now0
    /\ students = <<Student("s1", 1, "active",
                            <<Record(Monday0, "c1", "present", Undefined)>>),
                    Student("s2", 1, "active", <<>>)>>
    /\ classes = <<>>
    /\ events = <<>>
    /\ scheduleEvents = calculateCalendarEvents(classes, events)
    /\ effectPending = FALSE
    /\ academySettings = [ranks |-> Ranks0]
    /\ currentUser \in {Master, StudentUser}
    /\ lastCall = [op |-> "none"]
    /\ calls = 0
    /\ db = StoreOf(students, classes, events, academySettings)
    /\ refresh = Idle
    /\ auth = SignedInAuth(currentUser)
    /\ route = NotRendered

SnapshotNext == \E first \in MemberCalls, second \in MemberCalls : sameRender(first, second)

SnapshotSpec == SnapshotInit /\ [][SnapshotNext]_vars

-----------------------------------------------------------------------------
(* Edits of displayed instances through the calendar wrappers, with and    *)
(* without a session moved from Monday to Thursday (EditSpec).             *)

EditDates == {Monday1, Wednesday1, Thursday1}

\* the updates a calendar view hands over for the instance shown at a date
InstanceUpdates ==
    {[classId |-> "c1", start |-> DateTime(dateStr, 18, 0),
      end |-> DateTime(dateStr, 19, 30), instructor |-> "Bea"] : dateStr \in EditDates}
    \cup {[classId |-> "c1", start |-> DateTime(dateStr, 16, 0), status |-> "cancelled"] :
              dateStr \in EditDates}

EditInit ==
    /\ now = Now0
    /\ students = <<>>
    /\ \E modifications \in {<<>>, <<Modification(Monday1, "move", Thursday1, NoOverrides)>>} :
          classes = <<Class("c1", <<>>, <<16, 0>>, modifications)>>
    /\ events = <<>>
    /\ scheduleEvents = calculateCalendarEvents(classes, events)
    /\ effectPending = FALSE
    /\ academySettings = [ranks |-> Ranks0]
    /\ currentUser \in {Master, StudentUser}
    /\ lastCall = [op |-> "none"]
    /\ calls = 0
    /\ db = StoreOf(students, classes, events, academySettings)
    /\ refresh = Idle
    /\ auth = SignedInAuth(currentUser)
    /\ route = NotRendered

EditNext ==
    \/ \E dateStr \in EditDates : deleteCalendarEvent([classId |-> "c1", dateStr |-> dateStr])
    \/ \E updates \in InstanceUpdates : updateCalendarEvent("c1", updates)
    \/ ScheduleEffect

EditSpec == EditInit /\ [][EditNext]_vars

-----------------------------------------------------------------------------
(* Properties of the attendance ledger (LedgerSpec).                       *)

PresentOrLate(history) ==
    {k \in DOMAIN history : history[k].status \in {"present", "late"}}

\* the records of a history for one (date, classId) key
KeyRecords(history, date, classId) ==
    {k \in DOMAIN history : history[k].date = date /\ history[k].classId = classId}

\* the date a call writes to: the date given, or today when none is given
EffectiveDate(date) == IF date = NoString THEN FormatDate(now) ELSE date

\* the step is a call of the entry point op
IsCall(op) == lastCall'.op = op /\ calls' = calls + 1

IsMaxPresentDate(history, date) ==
    /\ \E k \in PresentOrLate(history) : history[k].date = date
    /\ \A k \in PresentOrLate(history) : ParseDate(history[k].date) <= ParseDate(date)

\* C2: in every state reached by markAttendance (deletions included),
\* bulkMarkPresent and promoteStudent from a coherent state, each member's
\* cached attendance count is the number of present / late records of the
\* member's history.
C2_AttendanceCountCoherent ==
    \A i \in DOMAIN students :
        students[i].attendance = Cardinality(PresentOrLate(students[i].attendanceHistory))

\* a deletion has just left a member with one record, which is counted
C2_Witness ==
    /\ lastCall.op = "markAttendance"
    /\ lastCall.status = Undefined
    /\ \E i \in DOMAIN students :
          /\ students[i].id = lastCall.studentId
          /\ students[i].attendance = 1
          /\ Len(students[i].attendanceHistory) = 1
          /\ students[i].lastAttendance # NoString

\* C3: after every markAttendance and bulkMarkPresent call, each member the
\* call updated has lastAttendance equal to the greatest date among the
\* member's present / late records, or the value stored before when there is
\* no such record.
C3_LastAttendanceCoherent ==
    [][(IsCall("markAttendance") \/ IsCall("bulkMarkPresent")) =>
        \A i \in DOMAIN students :
            (\/ students'[i] # students[i]
             \/ (IsCall("markAttendance") /\ students[i].id = lastCall'.studentId))
            => IF PresentOrLate(students'[i].attendanceHistory) # {}
               THEN IsMaxPresentDate(students'[i].attendanceHistory,
                                     students'[i].lastAttendance)
               ELSE students'[i].lastAttendance = students[i].lastAttendance]_vars

\* C4: bulkMarkPresent(classId, date) adds exactly one present record for the
\* (date, classId) pair to every member of the class roster that has no record
\* for the pair, and leaves every other member entirely unchanged: members
\* with a record of any status for the pair, members outside the roster, and
\* all members when the class id is unknown.
C4_BulkFrame ==
    [][IsCall("bulkMarkPresent") =>
        LET classId == lastCall'.classId
            date == EffectiveDate(lastCall'.date)
            InRoster(id) == \E c \in DOMAIN classes :
                                /\ classes[c].id = classId
                                /\ \E k \in DOMAIN classes[c].studentIds :
                                      classes[c].studentIds[k] = id
        IN  \A i \in DOMAIN students :
                LET old == students[i].attendanceHistory
                    new == students'[i].attendanceHistory
                IN  IF InRoster(students[i].id) /\ KeyRecords(old, date, classId) = {}
                    THEN /\ Len(new) = Len(old) + 1
                         /\ \E k \in DOMAIN new :
                               /\ KeyRecords(new, date, classId) = {k}
                               /\ new[k].status = "present"
                               /\ Splice(new, k) = old
                    ELSE students'[i] = students[i]]_vars

\* a bulk call for today has added a present record for one roster member and
\* has left another roster member's excused record for today as it was
C4_Witness ==
    /\ lastCall.op = "bulkMarkPresent"
    /\ lastCall.classId = "c1"
    /\ \E i, j \in DOMAIN students :
          /\ i # j
          /\ \E k \in KeyRecords(students[i].attendanceHistory, FormatDate(now), "c1") :
                /\ students[i].attendanceHistory[k].status = "present"
                /\ students[i].attendanceHistory[k].timestamp = now
          /\ \E k \in KeyRecords(students[j].attendanceHistory, FormatDate(now), "c1") :
                /\ students[j].attendanceHistory[k].status = "excused"
                /\ students[j].attendanceHistory[k].reason = "sick"

\* the rank the evaluator finds for a rank id: the first of the list with it
KnownRank(rankId) ==
    {k \in DOMAIN academySettings.ranks :
        /\ academySettings.ranks[k].id = rankId
        /\ \A j \in 1..(k - 1) : academySettings.ranks[j].id # rankId}

\* C6: in the state a markAttendance or bulkMarkPresent call produces, every
\* member whose ledger the call changed, whose rank is known, whose recomputed
\* count reaches the rank's requiredAttendance and whose status was active or
\* debtor has status exam_ready.
C6_EvaluatorAfterMutation ==
    [][(IsCall("markAttendance") \/ IsCall("bulkMarkPresent")) =>
        \A i \in DOMAIN students :
            (/\ students'[i].attendanceHistory # students[i].attendanceHistory
             /\ students[i].status \in {"active", "debtor"}
             /\ \E k \in KnownRank(students[i].rankId) :
                   Cardinality(PresentOrLate(students'[i].attendanceHistory))
                       >= academySettings.ranks[k].requiredAttendance)
            => students'[i].status = "exam_ready"]_vars

\* one more present record has taken an active member from one short of the
\* threshold to exam_ready
C6_Witness ==
    /\ lastCall.op = "markAttendance"
    /\ lastCall.status = "present"
    /\ calls = 1
    /\ \E i \in DOMAIN students :
          /\ students[i].id = lastCall.studentId
          /\ students[i].status = "exam_ready"
          /\ \E k \in KnownRank(students[i].rankId) :
                students[i].attendance = academySettings.ranks[k].requiredAttendance

\* C7: every member's history holds at most one record per (classId, date).
C7_LedgerKeyUnique ==
    \A i \in DOMAIN students :
        \A k, l \in DOMAIN students[i].attendanceHistory :
            (/\ students[i].attendanceHistory[k].date = students[i].attendanceHistory[l].date
             /\ students[i].attendanceHistory[k].classId
                    = students[i].attendanceHistory[l].classId)
            => k = l

\* a second write for a key has replaced the record: the member's only record
\* is excused, yet lastAttendance still names its date
C7_Witness ==
    /\ lastCall.op = "markAttendance"
    /\ lastCall.status = "excused"
    /\ \E i \in DOMAIN students :
          /\ students[i].id = lastCall.studentId
          /\ Len(students[i].attendanceHistory) = 1
          /\ students[i].attendanceHistory[1].status = "excused"
          /\ students[i].attendanceHistory[1].timestamp = now
          /\ students[i].lastAttendance = students[i].attendanceHistory[1].date

\* C8: a markAttendance call that repeats the call before it, with the same
\* arguments and at the same clock value, leaves every member as the first
\* call left it.
C8_UpsertIdempotent ==
    [][(IsCall("markAttendance") /\ lastCall'.repeated) => students' = students]_vars

\* the same defined-status call has been made twice
C8_Witness ==
    /\ lastCall.op = "markAttendance"
    /\ lastCall.repeated
    /\ lastCall.status = "late"
    /\ \E i \in DOMAIN students :
          /\ students[i].id = lastCall.studentId
          /\ KeyRecords(students[i].attendanceHistory, EffectiveDate(lastCall.date),
                        lastCall.classId) # {}

-----------------------------------------------------------------------------
(* Properties of the promotion evaluator (EvalSpec).                       *)

\* the one case in which the evaluation changes the member
MeetsRequirement(student) ==
    /\ \E i \in KnownRank(student.rankId) :
          student.attendance >= academySettings.ranks[i].requiredAttendance
    /\ student.status \in {"active", "debtor"}

\* C5: for every member and every rank list the program reaches,
\* checkPromotionEligibility returns the member with the status set to
\* exam_ready when the member's rankId is found in the rank list, the
\* attendance count is >= that rank's requiredAttendance and the status is
\* active or debtor, and returns the member unchanged otherwise; it never
\* changes the status of a suspended or exam_ready member, never changes a
\* field other than status, and applied to its own result it returns that
\* result.
C5_EvaluationContract ==
    \A student \in EvalStudents :
        LET result == checkPromotionEligibility(student)
        IN  /\ DOMAIN result = DOMAIN student
            /\ \A f \in DOMAIN student \ {"status"} : result[f] = student[f]
            /\ result.status = IF MeetsRequirement(student) THEN "exam_ready"
                               ELSE student.status
            /\ student.status \in {"suspended", "exam_ready"} => result = student
            /\ checkPromotionEligibility(result) = result

\* updateStudent has stored a debtor member as exam_ready, and the rank list
\* has changed since the construction
C5_Witness ==
    /\ lastCall.op = "updateStudent"
    /\ lastCall.student.status = "debtor"
    /\ MeetsRequirement(lastCall.student)
    /\ students[1].status = "exam_ready"
    /\ academySettings.ranks # Ranks0

-----------------------------------------------------------------------------
(* Properties of the schedule expansion (CalendarSpec). They are stated    *)
(* of the schedule the effect has computed from the current classes, that  *)
(* is, of the states with no recomputation pending.                        *)

Window == startWindow(now)..endWindow(now)

RecurringIndices == {i \in DOMAIN scheduleEvents : scheduleEvents[i].isRecurring}

RenderedIds == {scheduleEvents[i].id : i \in RecurringIndices}

\* the instances of the series rendered at a date
RenderedAt(cls, dateStr) ==
    {i \in RecurringIndices : scheduleEvents[i].id = InstanceId(cls.id, dateStr)}

\* the move exceptions of the series whose destination is the date
MoveIns(cls, dateStr) ==
    {k \in DOMAIN cls.modifications :
        cls.modifications[k].type = "move" /\ cls.modifications[k].newDate = dateStr}

\* the exceptions of the series keyed on the date
ExceptionsOn(cls, dateStr) ==
    {k \in DOMAIN cls.modifications : cls.modifications[k].date = dateStr}

IsRegularDay(cls, date) == \E k \in DOMAIN cls.days : cls.days[k] = dayNames[GetDay(date) + 1]

\* the exception's field where it carries one, the series default otherwise
ResolvedStart(cls, m) == IF m.newStartTime # NoString THEN m.newStartTime ELSE cls.startTime
ResolvedEnd(cls, m) == IF m.newEndTime # NoString THEN m.newEndTime ELSE cls.endTime
ResolvedInstructor(cls, m) ==
    IF m.newInstructor # Undefined THEN m.newInstructor ELSE cls.instructor

\* both times resolve, so the instance is emitted
TimesResolve(cls, m) == ResolvedStart(cls, m) # NoString /\ ResolvedEnd(cls, m) # NoString

\* the instance is the one of the date, rendered with the exception m
RenderedWith(instance, cls, date, m) ==
    /\ instance.start = SetHours(date, ResolvedStart(cls, m))
    /\ instance.end = SetHours(date, ResolvedEnd(cls, m))
    /\ instance.instructor = ResolvedInstructor(cls, m)

\* exactly one instance of the series at the date, rendered with m; none
\* when a time does not resolve
OneInstanceWith(cls, date, m) ==
    LET rendered == RenderedAt(cls, FormatDate(date))
    IN  IF TimesResolve(cls, m)
        THEN /\ Cardinality(rendered) = 1
             /\ \A i \in rendered : RenderedWith(scheduleEvents[i], cls, date, m)
        ELSE rendered = {}

\* the disposition of one date of one series, as the precedence (a), (b),
\* (c) gives it
SingleDisposition(cls, date) ==
    LET dateStr == FormatDate(date)
        moveIns == MoveIns(cls, dateStr)
        exceptions == ExceptionsOn(cls, dateStr)
        isRendered == InstanceId(cls.id, dateStr) \in RenderedIds
    IN  IF moveIns # {}
        THEN \E k \in moveIns : OneInstanceWith(cls, date, cls.modifications[k])
        ELSE IF IsRegularDay(cls, date)
             THEN IF \E k \in exceptions : cls.modifications[k].type = "move"
                  THEN ~isRendered
                  ELSE isRendered <=>
                          \/ exceptions = {} /\ TimesResolve(cls, NoModification)
                          \/ \E k \in exceptions : TimesResolve(cls, cls.modifications[k])
             ELSE ~isRendered

\* C9: for every series and every date of the window the schedule holds the
\* outcome of exactly one disposition: (a) where a move exception has the
\* date as its destination, one instance rendered with that exception's
\* overrides, whatever the weekday and whatever exception is keyed on the
\* date; (b) otherwise, on a weekday of the pattern, one instance unless a
\* move exception originates there, then none; (c) otherwise none. An
\* instance counts as rendered when its start and end time resolve. No two
\* instances are of the same (series, date), and every instance is of a
\* date of the window.
C9_SingleDisposition ==
    ~effectPending =>
        /\ Cardinality(RenderedIds) = Cardinality(RecurringIndices)
        /\ \A c \in DOMAIN classes : \A date \in Window :
              SingleDisposition(classes[c], date)
        /\ \A id \in RenderedIds :
              \E c \in DOMAIN classes : id[1] = classes[c].id /\ ParseDate(id[2]) \in Window

\* a Monday session moved to a Wednesday that carries a cancel exception is
\* rendered there as an active instance, a Thursday outside the pattern is
\* not rendered, and the Monday it came from is not rendered
C9_Witness ==
    /\ ~effectPending
    /\ \E c \in DOMAIN classes :
          /\ MoveIns(classes[c], Wednesday1) # {}
          /\ \E k \in ExceptionsOn(classes[c], Wednesday1) :
                classes[c].modifications[k].type = "cancel"
          /\ \E i \in RenderedAt(classes[c], Wednesday1) :
                scheduleEvents[i].status = "active"
          /\ RenderedAt(classes[c], Monday1) = {}
          /\ RenderedAt(classes[c], Thursday1) = {}

\* the class an instance was rendered from
ClassOf(instance) == classes[CHOOSE c \in DOMAIN classes : classes[c].id = instance.classId]

\* the exception keyed on the date, or none
ExceptionOn(cls, dateStr) ==
    IF ExceptionsOn(cls, dateStr) = {} THEN NoModification
    ELSE cls.modifications[CHOOSE k \in ExceptionsOn(cls, dateStr) : TRUE]

\* the status the exception type gives an instance; the exception type the
\* source calls 'rescheduled' is the reschedule kind
StatusFor(m) ==
    IF m.type = "cancel" THEN "cancelled"
    ELSE IF m.type = "rescheduled" THEN "rescheduled"
    ELSE "active"

\* C10: every instance rendered on a regular day of its series (a weekday of
\* the pattern that is no move destination) has the start time, end time and
\* instructor of the exception keyed on its date, each where the exception
\* carries it, and the series default otherwise (the defaults for all three
\* when there is no exception); its status is cancelled when the exception
\* type is cancel, rescheduled when it is reschedule, active in every other
\* case.
C10_FieldByFieldOverrides ==
    ~effectPending =>
        \A i \in RecurringIndices :
            LET instance == scheduleEvents[i]
                dateStr == instance.id[2]
                cls == ClassOf(instance)
                m == ExceptionOn(cls, dateStr)
            IN  (MoveIns(cls, dateStr) = {} /\ IsRegularDay(cls, ParseDate(dateStr))) =>
                    /\ Cardinality(ExceptionsOn(cls, dateStr)) <= 1
                    /\ RenderedWith(instance, cls, ParseDate(dateStr), m)
                    /\ instance.status = StatusFor(m)

\* a Wednesday instance rescheduled with all three overrides, a Monday
\* instance with only the instructor overridden, and the Monday after with
\* no exception, all rendered
C10_Witness ==
    /\ ~effectPending
    /\ \E i, j, k \in RecurringIndices :
          /\ scheduleEvents[i].id = InstanceId("c1", Wednesday1)
          /\ scheduleEvents[i].status = "rescheduled"
          /\ scheduleEvents[i].start = SetHours(ParseDate(Wednesday1), <<18, 0>>)
          /\ scheduleEvents[i].end = SetHours(ParseDate(Wednesday1), <<19, 30>>)
          /\ scheduleEvents[i].instructor = "Bea"
          /\ scheduleEvents[j].id = InstanceId("c1", Monday1)
          /\ scheduleEvents[j].status = "active"
          /\ scheduleEvents[j].start = SetHours(ParseDate(Monday1), <<16, 0>>)
          /\ scheduleEvents[j].instructor = "Carl"
          /\ scheduleEvents[k].id = InstanceId("c1", Monday0)
          /\ scheduleEvents[k].instructor = "Ana"

\* C1: every move exception of every series (its destination another date
\* than its origin, its start and end time resolving) whose destination is
\* in the window has exactly one instance of the series at its destination,
\* rendered with its overrides, and no instance at its origin; with the
\* destination outside the window there is no instance at the origin and
\* none at the destination.
C1_MoveConservation ==
    ~effectPending =>
        \A c \in DOMAIN classes : \A k \in DOMAIN classes[c].modifications :
            LET cls == classes[c]
                m == cls.modifications[k]
            IN  (m.type = "move" /\ m.newDate # m.date /\ TimesResolve(cls, m)) =>
                    /\ RenderedAt(cls, m.date) = {}
                    /\ IF ParseDate(m.newDate) \in Window
                       THEN OneInstanceWith(cls, ParseDate(m.newDate), m)
                       ELSE RenderedAt(cls, m.newDate) = {}

-----------------------------------------------------------------------------
(* Properties of the refresh (RefreshSpec).                                *)

\* the step applies what a load has read
IsApply == refresh.phase = "fetched" /\ refresh'.phase = "applied"

\* C11: when a load applies what it read, and an entry point has changed the
\* students, classes or events (and saved the change) since the load read
\* them, the application leaves the students, classes or events the entry
\* point set as they are.
C11_MutationWinsOverStaleSnapshot ==
    [][IsApply =>
        LET snapshot == refresh.snapshot[1]
        IN  /\ db.students # snapshot.students => students' = students
            /\ db.classes # snapshot.classes => classes' = classes
            /\ db.events # snapshot.events => events' = events]_vars

-----------------------------------------------------------------------------
(* The exception machine: the three entry points that write a series'      *)
(* exceptions, from a class with no exception or with one.                 *)

ExceptionInputs ==
    {Modification(Monday1, "move", Thursday1, AllOverrides),
     Modification(Monday1, "instructor", NoString, InstructorOnly),
     Modification(Wednesday1, "cancel", NoString, NoOverrides)}

ExceptionInit ==
    /\ now = Now0
    /\ students = <<>>
    /\ \E modifications \in {<<>>, <<Modification(Monday1, "cancel", NoString, NoOverrides)>>} :
          classes = <<Class("c1", <<>>, <<16, 0>>, modifications),
                      Class("c2", <<>>, <<18, 0>>, <<>>)>>
    /\ events = <<Event0>>
    /\ scheduleEvents = calculateCalendarEvents(classes, events)
    /\ effectPending = FALSE
    /\ academySettings = [ranks |-> Ranks0]
    /\ currentUser \in {Master, StudentUser}
    /\ lastCall = [op |-> "none"]
    /\ calls = 0
    /\ db = StoreOf(students, classes, events, academySettings)
    /\ refresh = Idle
    /\ auth = SignedInAuth(currentUser)
    /\ route = NotRendered

ExceptionNext ==
    \/ \E modification \in ExceptionInputs : modifyClassSession("c1", modification)
    \/ modifyClassSession("c2", Modification(Monday1, "cancel", NoString, NoOverrides))
    \/ updateCalendarEvent("c1", [classId |-> "c1", start |-> DateTime(Wednesday1, 18, 0),
                                   end |-> DateTime(Wednesday1, 19, 30),
                                   status |-> "rescheduled"])
    \/ \E id \in {[classId |-> "c1", dateStr |-> Monday1],
                    [classId |-> "c1", dateStr |-> Thursday1],
                    [eventId |-> "e1"]} : deleteCalendarEvent(id)
    \/ ScheduleEffect

ExceptionSpec == ExceptionInit /\ [][ExceptionNext]_vars

-----------------------------------------------------------------------------
(* The degrade machine: a class whose times, or whose exceptions' times,   *)
(* are missing ('') or malformed ('16', no minutes).                       *)

Malformed == <<16>>

TimeInputs == {<<16, 0>>, NoString, Malformed}

DegradeInputs ==
    {Modification(Monday1, "instructor", NoString,
                  [newStartTime |-> startTime, newEndTime |-> NoString,
                   newInstructor |-> "Bea"]) : startTime \in {Malformed, <<18, 0>>}}
    \cup {Modification(Wednesday1, "rescheduled", NoString,
                       [newStartTime |-> <<18, 0>>, newEndTime |-> endTime,
                        newInstructor |-> Undefined]) : endTime \in {Malformed, <<19, 0>>}}
    \cup {Modification(Monday1, "move", Thursday1, NoOverrides)}

DegradeInit ==
    /\ now = Now0
    /\ students = <<>>
    /\ \E startTime \in TimeInputs :
          classes = <<Class("c1", <<>>, startTime, <<>>),
                      Class("c2", <<>>, <<18, 0>>, <<>>)>>
    /\ events = <<>>
    /\ scheduleEvents = calculateCalendarEvents(classes, events)
    /\ effectPending = FALSE
    /\ academySettings = [ranks |-> Ranks0]
    /\ currentUser \in {Master, StudentUser}
    /\ lastCall = [op |-> "none"]
    /\ calls = 0
    /\ db = StoreOf(students, classes, events, academySettings)
    /\ refresh = Idle
    /\ auth = SignedInAuth(currentUser)
    /\ route = NotRendered

DegradeNext ==
    \/ \E modification \in DegradeInputs : modifyClassSession("c1", modification)
    \/ \E endTime \in TimeInputs :
          updateClass([Class("c2", <<>>, <<18, 0>>, <<>>) EXCEPT !.endTime = endTime])
    \/ ScheduleEffect

DegradeSpec == DegradeInit /\ [][DegradeNext]_vars

-----------------------------------------------------------------------------
(* The projection machine: the entry points that write one-off events,     *)
(* next to one class.                                                      *)

EventUpdates ==
    {EventUpdate,
     [status |-> "cancelled"],
     [date |-> <<2024, 6, 16>>, start |-> DateTime(<<2024, 6, 16>>, 10, 0)],
     [time |-> NoString]}

ProjectionInit ==
    /\ now = Now0
    /\ students = <<>>
    /\ classes = <<Class("c1", <<>>, <<16, 0>>, <<>>)>>
    /\ events \in {<<>>, <<Event0>>, <<Event0, Event1>>}
    /\ scheduleEvents = calculateCalendarEvents(classes, events)
    /\ effectPending = FALSE
    /\ academySettings = [ranks |-> Ranks0]
    /\ currentUser \in {Master, StudentUser}
    /\ lastCall = [op |-> "none"]
    /\ calls = 0
    /\ db = StoreOf(students, classes, events, academySettings)
    /\ refresh = Idle
    /\ auth = SignedInAuth(currentUser)
    /\ route = NotRendered

ProjectionNext ==
    \/ \E updates \in EventUpdates : updateCalendarEvent("e1", updates)
    \/ updateCalendarEvent("e2", EventUpdate)
    \/ addEvent([Event1 EXCEPT !.id = "e3"])
    \/ deleteEvent("e2")
    \/ ScheduleEffect

ProjectionSpec == ProjectionInit /\ [][ProjectionNext]_vars

-----------------------------------------------------------------------------
(* The schedule machine: entry points that write classes or events, entry  *)
(* points that write members and ranks, and the schedule effect, which     *)
(* React runs after every render whose classes or events array is new.     *)

ScheduleInit ==
    /\ now = Now0
    /\ students = <<Enrolled(Student("s1", 1, "active", <<>>), <<"c1">>),
                    Student("s2", 1, "active", <<>>)>>
    /\ classes = <<Class("c1", <<"s1">>, <<16, 0>>, <<>>)>>
    /\ events \in {<<>>, <<[Event0 EXCEPT !.registrants = <<"s1">>, !.registeredCount = 1]>>}
    /\ scheduleEvents = calculateCalendarEvents(classes, events)
    /\ effectPending = FALSE
    /\ academySettings = [ranks |-> Ranks0]
    /\ currentUser \in {Master, StudentUser}
    /\ lastCall = [op |-> "none"]
    /\ calls = 0
    /\ db = StoreOf(students, classes, events, academySettings)
    /\ refresh = Idle
    /\ auth = SignedInAuth(currentUser)
    /\ route = NotRendered

ScheduleNext ==
    \/ \E id \in {"s1", "s2"} : deleteStudent(id, "none")
    \/ updateStudentStatus("s1", "suspended")
    \/ \E status \in {"present", Undefined} :
          markAttendance("s1", "c1", NoString, status, Undefined)
    \/ addRank(Rank("r3", "Green", 4))
    \/ modifyClassSession("c1", Modification(Monday1, "cancel", NoString, NoOverrides))
    \/ addEvent(Event1)
    \/ ScheduleEffect

ScheduleSpec == ScheduleInit /\ [][ScheduleNext]_vars

-----------------------------------------------------------------------------
(* The fan-out machine: the entry points that write rosters and registrant *)
(* lists, from rosters and lists whose counters agree with them;           *)
(* deleteStudent with each of its PulseService calls rejecting.            *)

Rejections == {"none"} \cup {DeleteStudentCalls[i] : i \in DOMAIN DeleteStudentCalls}

FanOutInit ==
    /\ now = Now0
    /\ students = <<Enrolled(Student("s1", 1, "active", <<>>), <<"c1", "c2">>),
                    Enrolled(Student("s2", 1, "active", <<>>), <<"c1">>)>>
    /\ classes = <<Class("c1", <<"s1", "s2">>, <<16, 0>>, <<>>),
                   Class("c2", <<"s1">>, <<18, 0>>, <<>>)>>
    /\ events = <<[Event0 EXCEPT !.registrants = <<"s1">>, !.registeredCount = 1], Event1>>
    /\ scheduleEvents = calculateCalendarEvents(classes, events)
    /\ effectPending = FALSE
    /\ academySettings = [ranks |-> Ranks0]
    /\ currentUser \in {Master, StudentUser}
    /\ lastCall = [op |-> "none"]
    /\ calls = 0
    /\ db = StoreOf(students, classes, events, academySettings)
    /\ refresh = Idle
    /\ auth = SignedInAuth(currentUser)
    /\ route = NotRendered

FanOutNext ==
    \/ \E id \in {"s1", "s2"}, rejected \in Rejections : deleteStudent(id, rejected)
    \/ \E studentId \in {"s1", "s2"}, eventId \in {"e1", "e2"} :
          registerForEvent(studentId, eventId)
    \/ updateEventRegistrants("e1", <<"s2", "s1">>)
    \/ addEvent([Event0 EXCEPT !.id = "e3"])
    \/ enrollStudent("s2", "c2")
    \/ unenrollStudent("s2", "c2")
    \/ ScheduleEffect

FanOutSpec == FanOutInit /\ [][FanOutNext]_vars

-----------------------------------------------------------------------------
(* Enrollment from a state in which rosters and members agree, with ids    *)
(* of members and classes that exist and that do not (EnrollSpec).         *)

EnrollInit ==
    /\ now = Now0
    /\ students = <<Enrolled(Student("s1", 1, "active", <<>>), <<"c1">>),
                    Enrolled(Student("s2", 1, "active", <<>>), <<>>)>>
    /\ classes = <<Class("c1", <<"s1">>, <<16, 0>>, <<>>),
                   Class("c2", <<>>, <<18, 0>>, <<>>)>>
    /\ events = <<>>
    /\ scheduleEvents = calculateCalendarEvents(classes, events)
    /\ effectPending = FALSE
    /\ academySettings = [ranks |-> Ranks0]
    /\ currentUser = Master
    /\ lastCall = [op |-> "none"]
    /\ calls = 0
    /\ db = StoreOf(students, classes, events, academySettings)
    /\ refresh = Idle
    /\ auth = SignedInAuth(currentUser)
    /\ route = NotRendered

EnrollNext ==
    \/ \E studentId \in StudentIds, classId \in ClassIds : enrollStudent(studentId, classId)
    \/ \E studentId \in StudentIds, classId \in ClassIds : unenrollStudent(studentId, classId)
    \/ \E id \in ClassIds : deleteClass(id)
    \/ \E id \in StudentIds : deleteStudent(id, "none")
    \/ ScheduleEffect

EnrollSpec == EnrollInit /\ [][EnrollNext]_vars

-----------------------------------------------------------------------------
(* The attendance entry points called in a master's and in a student's     *)
(* session (AttendanceSpec).                                               *)

AttendanceInit ==
    /\ now = Now0
    /\ students = <<Student("s1", 1, "active", <<>>),
                    Student("s2", 1, "active",
                            <<Record(Monday0, "c1", "present", Undefined)>>)>>
    /\ classes = <<Class("c1", <<"s1", "s2">>, <<16, 0>>, <<>>)>>
    /\ events = <<>>
    /\ scheduleEvents = calculateCalendarEvents(classes, events)
    /\ effectPending = FALSE
    /\ academySettings = [ranks |-> Ranks0]
    /\ currentUser \in {Master, StudentUser}
    /\ lastCall = [op |-> "none"]
    /\ calls = 0
    /\ db = StoreOf(students, classes, events, academySettings)
    /\ refresh = Idle
    /\ auth = SignedInAuth(currentUser)
    /\ route = NotRendered

AttendanceNext ==
    \/ \E studentId \in StudentIds, date \in MarkDates, input \in MarkInputs :
          markAttendance(studentId, "c1", date, input.status, input.reason)
    \/ \E classId \in ClassIds, date \in MarkDates : bulkMarkPresent(classId, date)

AttendanceSpec == AttendanceInit /\ [][AttendanceNext]_vars

-----------------------------------------------------------------------------
(* updateStudentProfile with each field a Partial<Student> can carry       *)
(* (ProfileSpec).                                                          *)

ProfileUpdates ==
    {[phone |-> "555"],
     [status |-> "exam_ready"],
     [rankId |-> "r2", rank |-> "Yellow"],
     [attendance |-> 9],
     [attendanceHistory |-> <<Record(Monday0, "c1", "present", Undefined)>>],
     [balance |-> 0],
     [phone |-> "555", status |-> "active", balance |-> 0]}

ProfileInit ==
    /\ now = Now0
    /\ \E status \in {"active", "debtor", "suspended"} :
          students = <<[Student("s1", 1, status, <<>>) EXCEPT !.balance = 100],
                       Student("s2", 1, "active", <<>>)>>
    /\ classes = <<>>
    /\ events = <<>>
    /\ scheduleEvents = calculateCalendarEvents(classes, events)
    /\ effectPending = FALSE
    /\ academySettings = [ranks |-> Ranks0]
    /\ currentUser \in {Master, StudentUser}
    /\ lastCall = [op |-> "none"]
    /\ calls = 0
    /\ db = StoreOf(students, classes, events, academySettings)
    /\ refresh = Idle
    /\ auth = SignedInAuth(currentUser)
    /\ route = NotRendered

ProfileNext ==
    \E studentId \in StudentIds, updates \in ProfileUpdates :
        updateStudentProfile(studentId, updates)

ProfileSpec == ProfileInit /\ [][ProfileNext]_vars

-----------------------------------------------------------------------------
(* AuthProvider (src/context/AuthContext.tsx): the session effect, the     *)
(* auth event handler, login and logout; and ProtectedRoute. The auth      *)
(* client and PulseService.getCurrentUser are outside the source: the      *)
(* client holds a session and emits events, and a getCurrentUser call      *)
(* reads the session at some time between the call and its settling.       *)

\* a getCurrentUser call awaited: <<>> until it has read the session, then
\* <<user>>, the value it resolves to
Pending == <<>>

academy == <<students, classes, events, scheduleEvents, academySettings, now,
             effectPending, calls, db, refresh>>

\* const user = await PulseService.getCurrentUser() of initAuth: the read
InitAuthReads ==
    /\ auth.phase = "init"
    /\ auth.initRead = Pending
    /\ auth' = [auth EXCEPT !.initRead = <<auth.session>>]
    /\ lastCall' = [op |-> "getCurrentUser"]
    /\ UNCHANGED <<academy, currentUser, route>>

\* initAuth from the end of its await: try / catch / finally, then
\* onAuthStateChange; after a cleanup the subscription is unsubscribed as
\* soon as it is returned
InitAuthSettles(rejected) ==
    /\ auth.phase = "init"
    /\ rejected \/ auth.initRead # Pending
    /\ currentUser' = IF ~rejected /\ auth.mounted THEN auth.initRead[1] ELSE currentUser
    /\ auth' = [auth EXCEPT !.loading = IF auth.mounted THEN FALSE ELSE @,
                            !.initRead = Pending,
                            !.phase = IF auth.mounted THEN "listening" ELSE "closed"]
    /\ lastCall' = [op |-> "initAuth", rejected |-> rejected]
    /\ UNCHANGED <<academy, route>>

\* the auth client changes its session and emits the event; the callback of
\* onAuthStateChange runs while the subscription is open
onAuthStateChange(event, user) ==
    /\ IF event = "SIGNED_OUT" THEN auth.session # Null /\ user = Null
       ELSE IF event = "TOKEN_REFRESHED" THEN auth.session # Null /\ user = auth.session
       ELSE user # Null
    /\ IF auth.phase # "listening"
       THEN /\ auth' = [auth EXCEPT !.session = user]
            /\ currentUser' = currentUser
       ELSE IF event = "SIGNED_OUT"
            THEN /\ currentUser' = IF auth.mounted THEN Null ELSE currentUser
                 /\ auth' = [auth EXCEPT !.session = user,
                                         !.loading = IF auth.mounted THEN FALSE ELSE @,
                                         !.signedOut = TRUE]
            ELSE /\ Len(auth.lookups) < MaxLookups
                 /\ currentUser' = currentUser
                 /\ auth' = [auth EXCEPT !.session = user,
                                         !.lookups = Append(@, Pending),
                                         !.signedOut = FALSE]
    /\ lastCall' = [op |-> "onAuthStateChange", event |-> event]
    /\ UNCHANGED <<academy, route>>

\* const user = await PulseService.getCurrentUser() of the callback: the read
LookupReads(k) ==
    /\ k \in DOMAIN auth.lookups
    /\ auth.lookups[k] = Pending
    /\ auth' = [auth EXCEPT !.lookups[k] = <<auth.session>>]
    /\ lastCall' = [op |-> "getCurrentUser"]
    /\ UNCHANGED <<academy, currentUser, route>>

\* the callback from the end of its await: if (mounted) setCurrentUser(user),
\* or the catch
LookupSettles(k, rejected) ==
    /\ k \in DOMAIN auth.lookups
    /\ rejected \/ auth.lookups[k] # Pending
    /\ currentUser' = IF ~rejected /\ auth.mounted THEN auth.lookups[k][1] ELSE currentUser
    /\ auth' = [auth EXCEPT !.lookups = Splice(@, k)]
    /\ lastCall' = [op |-> "onAuthStateChange settled", rejected |-> rejected]
    /\ UNCHANGED <<academy, route>>

\* PulseService.login signs the auth client in; a rejected login adds a toast
login(user, rejected) ==
    /\ user # Null
    /\ IF rejected THEN UNCHANGED <<currentUser, auth>>
       ELSE /\ currentUser' = user
            /\ auth' = [auth EXCEPT !.session = user, !.signedOut = FALSE]
    /\ lastCall' = [op |-> "login", rejected |-> rejected]
    /\ UNCHANGED <<academy, route>>

logout ==
    /\ currentUser' = Null
    /\ auth' = [auth EXCEPT !.session = Null]
    /\ lastCall' = [op |-> "logout"]
    /\ UNCHANGED <<academy, route>>

\* the cleanup of the effect
Unmount ==
    /\ auth.mounted
    /\ auth' = [auth EXCEPT !.mounted = FALSE,
                            !.phase = IF @ = "listening" THEN "closed" ELSE @]
    /\ lastCall' = [op |-> "cleanup"]
    /\ UNCHANGED <<academy, currentUser, route>>

\* a route that lets every user through once loading is over
ProtectedRouteAnyRole(allowedRoles) ==
    IF auth.loading THEN "spinner"
    ELSE IF currentUser = Null THEN "/"
    ELSE "children"

\* what ProtectedRoute returns: the spinner, the path of a Navigate, or
\* its children
ProtectedRoute(allowedRoles) ==
    IF auth.loading THEN "spinner"
    ELSE IF currentUser = Null THEN "/"
    ELSE IF currentUser.role \notin allowedRoles THEN "/403"
    ELSE "children"

\* a render of a ProtectedRoute under the provider
Render(allowedRoles) ==
    /\ auth.mounted
    /\ route' = [allowedRoles |-> allowedRoles, output |-> ProtectedRoute(allowedRoles)]
    /\ lastCall' = [op |-> "ProtectedRoute"]
    /\ UNCHANGED <<academy, currentUser, auth>>

Users == {Master, StudentUser}

Roles == {"master", "student"}

\* the provider is mounted: useState(null), useState(true), mounted = true,
\* initAuth() called; the auth client holds a persisted session or none
AuthInit ==
    /\ now = Now0
    /\ students = <<>>
    /\ classes = <<>>
    /\ events = <<>>
    /\ scheduleEvents = <<>>
    /\ effectPending = FALSE
    /\ academySettings = [ranks |-> Ranks0]
    /\ currentUser = Null
    /\ lastCall = [op |-> "none"]
    /\ calls = 0
    /\ db = StoreOf(students, classes, events, academySettings)
    /\ refresh = Idle
    /\ \E session \in Users \cup {Null} :
          auth = [loading |-> TRUE, mounted |-> TRUE, phase |-> "init",
                  initRead |-> Pending, lookups |-> <<>>, session |-> session,
                  signedOut |-> FALSE]
    /\ route = NotRendered

AuthNext ==
    \/ InitAuthReads
    \/ \E rejected \in BOOLEAN : InitAuthSettles(rejected)
    \/ \E event \in {"SIGNED_IN", "TOKEN_REFRESHED", "SIGNED_OUT"}, user \in Users \cup {Null} :
          onAuthStateChange(event, user)
    \/ \E k \in 1..MaxLookups : LookupReads(k)
    \/ \E k \in 1..MaxLookups, rejected \in BOOLEAN : LookupSettles(k, rejected)
    \/ \E user \in Users, rejected \in BOOLEAN : login(user, rejected)
    \/ logout
    \/ Unmount
    \/ \E allowedRoles \in SUBSET Roles : Render(allowedRoles)

AuthSpec == AuthInit /\ [][AuthNext]_vars

-----------------------------------------------------------------------------
(* The promotion machine: promoteStudent and the entry points that change  *)
(* the rank list, for two members of whom s1 starts in every status.       *)

PastRecords ==
    <<Record(Monday0, "c1", "present", Undefined),
      Record(Wednesday1, "c1", "late", Undefined),
      Record(Monday1, "c1", "present", Undefined)>>

\* a member of the rank with the status the evaluator gives that attendance
Evaluated(id, rankIndex, count) ==
    Student(id, rankIndex,
            IF count >= Ranks0[rankIndex].requiredAttendance THEN "exam_ready" ELSE "active",
            SubSeq(PastRecords, 1, count))

SettingsInputs ==
    {[ranks |-> <<Rank("r1", "White", 1), Rank("r2", "Yellow", 3)>>],
     [ranks |-> <<Rank("r2", "Yellow", 3), Rank("r1", "White", 2)>>]}

PromotionInit ==
    /\ now = Now0
    /\ \E rankIndex \in {1, 2} :
       \E s1 \in {Evaluated("s1", rankIndex, count) : count \in 0..3}
                 \cup {Student("s1", rankIndex, status, SubSeq(PastRecords, 1, 1)) :
                          status \in {"debtor", "suspended"}} :
          students = <<s1, Evaluated("s2", 2, 1)>>
    /\ classes = <<>>
    /\ events = <<>>
    /\ scheduleEvents = <<>>
    /\ effectPending = FALSE
    /\ academySettings = [ranks |-> Ranks0]
    /\ currentUser \in {Master, StudentUser}
    /\ lastCall = [op |-> "none"]
    /\ calls = 0
    /\ db = StoreOf(students, classes, events, academySettings)
    /\ refresh = Idle
    /\ auth = SignedInAuth(currentUser)
    /\ route = NotRendered

PromotionNext ==
    \/ \E studentId \in StudentIds : promoteStudent(studentId)
    \/ \E settings \in SettingsInputs : updateAcademySettings(settings)
    \/ addRank(Rank("r3", "Green", 4))
    \/ \E id \in {"r1", "r2"} : deleteRank(id)
    \/ Tick

PromotionSpec == PromotionInit /\ [][PromotionNext]_vars

-----------------------------------------------------------------------------
(* Claims about authorization, checked on the roster machine.              *)

StoredData(store) == <<store.students, store.classes, store.events, store.settings>>

\* the step is updateStudentProfile called by the member the profile belongs to
IsOwnProfileCall ==
    /\ IsCall("updateStudentProfile")
    /\ currentUser.studentId = lastCall'.studentId

\* C12: an entry point called by an actor who is not the master (for
\* updateStudentProfile: neither the master nor the owner of the profile)
\* leaves students, classes, events and settings unchanged and issues no
\* persistence call.
C12_UnauthorizedCallsChangeNothing ==
    [][(currentUser.role # "master" /\ ~IsOwnProfileCall) =>
          /\ students' = students
          /\ classes' = classes
          /\ events' = events
          /\ academySettings' = academySettings
          /\ db'.saved = <<>>
          /\ StoredData(db') = StoredData(db)]_vars

-----------------------------------------------------------------------------
(* Claims about promotion, checked on the promotion machine.               *)

\* the ordinal position of the member's rank in the rank list (0: unknown)
Ordinal(s) ==
    IF \E k \in DOMAIN academySettings.ranks : academySettings.ranks[k].id = s.rankId
    THEN CHOOSE k \in DOMAIN academySettings.ranks :
            /\ academySettings.ranks[k].id = s.rankId
            /\ \A j \in 1..(k - 1) : academySettings.ranks[j].id # s.rankId
    ELSE 0

HasSuccessor(s) == Ordinal(s) >= 1 /\ Ordinal(s) < Len(academySettings.ranks)

IsTopRank(s) == Ordinal(s) >= 1 /\ Ordinal(s) = Len(academySettings.ranks)

\* the step is promoteStudent called by the master for the member at index i
IsPromotionOf(i) ==
    /\ IsCall("promoteStudent")
    /\ currentUser.role = "master"
    /\ students[i].id = lastCall'.studentId

\* after is before with exactly one entry more, of the given rank and date
OneEntryAdded(before, after, rank, date) ==
    \E k \in DOMAIN after :
        /\ after[k].rank = rank
        /\ after[k].date = date
        /\ Splice(after, k) = before

\* C13: promoteStudent by the master on a member whose rank has a successor
\* gives the member the rank at the next ordinal position, attendance 0, an
\* empty attendance history, status active and exactly one more
\* promotion-history entry, holding the old rank name and the date of the
\* call; no other member changes.
C13_PromotionCommit ==
    [][\A i \in DOMAIN students :
          (IsPromotionOf(i) /\ HasSuccessor(students[i])) =>
              LET nextRank == academySettings.ranks[Ordinal(students[i]) + 1]
              IN  /\ DOMAIN students' = DOMAIN students
                  /\ students'[i].rank = nextRank.name
                  /\ students'[i].rankId = nextRank.id
                  /\ students'[i].attendance = 0
                  /\ students'[i].attendanceHistory = <<>>
                  /\ students'[i].status = "active"
                  /\ OneEntryAdded(students[i].promotionHistory,
                                   students'[i].promotionHistory,
                                   students[i].rank, FormatDate(now))
                  /\ \A j \in DOMAIN students :
                        students[j].id # students[i].id => students'[j] = students[j]]_vars

\* a member promoted out of White by the last call, next to an untouched one
C13_Witness ==
    /\ lastCall.op = "promoteStudent"
    /\ \E i, j \in DOMAIN students :
          /\ students[i].id = lastCall.studentId
          /\ students[i].rankId = "r2"
          /\ students[i].attendance = 0
          /\ Len(students[i].promotionHistory) = 1
          /\ students[i].promotionHistory[1].rank = "White"
          /\ j # i
          /\ students[j].promotionHistory = <<>>

\* the step is promoteStudent called for the member at index i
IsPromoteCallFor(i) ==
    /\ IsCall("promoteStudent")
    /\ students[i].id = lastCall'.studentId

\* C14: promoteStudent on a member whose rank is the last of the rank list
\* leaves the member's rank, status, attendance count, attendance history and
\* promotion history unchanged and persists nothing.
C14_TopRankNoOp ==
    [][\A i \in DOMAIN students :
          (IsPromoteCallFor(i) /\ IsTopRank(students[i])) =>
              /\ DOMAIN students' = DOMAIN students
              /\ students'[i].rank = students[i].rank
              /\ students'[i].rankId = students[i].rankId
              /\ students'[i].status = students[i].status
              /\ students'[i].attendance = students[i].attendance
              /\ students'[i].attendanceHistory = students[i].attendanceHistory
              /\ students'[i].promotionHistory = students[i].promotionHistory
              /\ db'.saved = <<>>
              /\ StoredData(db') = StoredData(db)]_vars

\* the master's last call was promoteStudent for an exam_ready member of the
\* last rank, who was never promoted
C14_Witness ==
    /\ lastCall.op = "promoteStudent"
    /\ currentUser.role = "master"
    /\ \E i \in DOMAIN students :
          /\ students[i].id = lastCall.studentId
          /\ IsTopRank(students[i])
          /\ students[i].status = "exam_ready"
          /\ students[i].attendance = 3
          /\ students[i].promotionHistory = <<>>
          /\ db.saved = <<>>

\* C15: promoteStudent changes a member's rank only if the member's status
\* is exam_ready at the time of the call; for a member of any other status
\* the call leaves rank, attendance and history unchanged.
C15_PromotionNeedsExamReady ==
    [][\A i \in DOMAIN students :
          (IsPromoteCallFor(i) /\ students[i].status # "exam_ready") =>
              /\ DOMAIN students' = DOMAIN students
              /\ students'[i].rank = students[i].rank
              /\ students'[i].rankId = students[i].rankId
              /\ students'[i].attendance = students[i].attendance
              /\ students'[i].attendanceHistory = students[i].attendanceHistory]_vars

\* the master's last call changed the rank configuration
RanksJustChanged ==
    /\ lastCall.op \in {"updateAcademySettings", "addRank", "deleteRank"}
    /\ currentUser.role = "master"

\* C16: after updateAcademySettings, addRank or deleteRank, every member with
\* status active or debtor whose rank is known and whose attendance count is
\* >= that rank's requiredAttendance has status exam_ready.
C16_EligibilityFollowsRankChange ==
    RanksJustChanged =>
        \A i \in DOMAIN students :
            (/\ students[i].status \in {"active", "debtor"}
             /\ \E k \in KnownRank(students[i].rankId) :
                   students[i].attendance >= academySettings.ranks[k].requiredAttendance)
            => students[i].status = "exam_ready"

-----------------------------------------------------------------------------
(* Claims about the exceptions of a series, checked on the exception       *)
(* machine.                                                                *)

OneExceptionPerDate(cls) ==
    \A k, l \in DOMAIN cls.modifications :
        cls.modifications[k].date = cls.modifications[l].date => k = l

\* the step writes an exception of the class at index i: the exception is the
\* last of the new list
WritesException(i) ==
    /\ i \in DOMAIN classes'
    /\ classes'[i].id = classes[i].id
    /\ classes'[i].modifications # classes[i].modifications

\* the written exception is the only one of its date, and the exceptions of
\* the other dates are the ones the class had
ReplacesItsDate(before, after) ==
    LET written == after[Len(after)]
        OtherDate(m) == m.date # written.date
    IN  /\ after # <<>>
        /\ SubSeq(after, 1, Len(after) - 1) = SelectSeq(before, OtherDate)

\* C17: under modifyClassSession, updateCalendarEvent and deleteCalendarEvent
\* each series holds at most one exception per date, and a write for a date
\* leaves the exception written as the series' only exception of that date,
\* the exceptions of the other dates being kept.
C17_ExceptionKeyUnique ==
    /\ [](\A i \in DOMAIN classes : OneExceptionPerDate(classes[i]))
    /\ [][\A i \in DOMAIN classes :
            WritesException(i) =>
                ReplacesItsDate(classes[i].modifications, classes'[i].modifications)]_vars

\* the initial cancellation of Monday has been replaced by a later write for
\* that day, after a write for another day
C17_Witness ==
    /\ Len(classes[1].modifications) = 2
    /\ classes[1].modifications[1].date = Wednesday1
    /\ classes[1].modifications[2].date = Monday1
    /\ classes[1].modifications[2].type = "move"
    /\ \E i \in DOMAIN db.classes :
          /\ db.classes[i].id = "c1"
          /\ db.classes[i].modifications = classes[1].modifications

-----------------------------------------------------------------------------
(* Further properties of the attendance ledger (LedgerSpec).               *)

\* the step is markAttendance for the member at index i
IsMarkOf(i) ==
    /\ IsCall("markAttendance")
    /\ students[i].id = lastCall'.studentId

\* the records of the call's key in a history
CallKeyRecords(history) ==
    KeyRecords(history, EffectiveDate(lastCall'.date), lastCall'.classId)

\* C18: when markAttendance is called with a defined status for a (date,
\* classId) that already has a record, the resulting record takes the status
\* of the call and, the call giving no reason, keeps the reason the record
\* had.
C18_UpsertMergeKeepsReason ==
    [][\A i \in DOMAIN students :
          (IsMarkOf(i) /\ lastCall'.status # Undefined) =>
              \A k \in CallKeyRecords(students[i].attendanceHistory) :
                  \E l \in CallKeyRecords(students'[i].attendanceHistory) :
                      LET existing == students[i].attendanceHistory[k]
                          result == students'[i].attendanceHistory[l]
                      IN  /\ result.status = lastCall'.status
                          /\ result.reason = IF lastCall'.reason = Undefined
                                             THEN existing.reason
                                             ELSE lastCall'.reason]_vars

NotCallKey(r) ==
    ~(r.date = EffectiveDate(lastCall'.date) /\ r.classId = lastCall'.classId)

\* C19: markAttendance with status undefined removes the member's record for
\* (date, classId) when one exists and leaves every other record as it was;
\* when there is none, or the member id is unknown, every history is
\* unchanged.
C19_DeletionSignal ==
    [][(IsCall("markAttendance") /\ lastCall'.status = Undefined) =>
          /\ DOMAIN students' = DOMAIN students
          /\ \A i \in DOMAIN students :
                students'[i].attendanceHistory =
                    IF students[i].id = lastCall'.studentId
                    THEN SelectSeq(students[i].attendanceHistory, NotCallKey)
                    ELSE students[i].attendanceHistory]_vars

\* the first call deleted the member's only record, the present one of
\* Monday: the history is empty and lastAttendance still names that day
C19_Witness ==
    /\ lastCall.op = "markAttendance"
    /\ lastCall.status = Undefined
    /\ lastCall.date = Monday0
    /\ calls = 1
    /\ \E i \in DOMAIN students :
          /\ students[i].id = lastCall.studentId
          /\ students[i].attendanceHistory = <<>>
          /\ students[i].attendance = 0
          /\ students[i].lastAttendance = Monday0

SortedByDateDesc(history) ==
    \A k, l \in DOMAIN history :
        k < l => ParseDate(history[k].date) >= ParseDate(history[l].date)

\* C20: under markAttendance, bulkMarkPresent and promoteStudent every
\* member's attendance history is sorted by date in descending order.
C20_LedgerSortedByDateDesc ==
    \A i \in DOMAIN students : SortedByDateDesc(students[i].attendanceHistory)

\* a record of today, written after the record of Monday, stands before it
C20_Witness ==
    /\ lastCall.op = "markAttendance"
    /\ lastCall.status = "excused"
    /\ EffectiveDate(lastCall.date) = Today0
    /\ \E i \in DOMAIN students :
          /\ students[i].id = lastCall.studentId
          /\ Len(students[i].attendanceHistory) = 2
          /\ students[i].attendanceHistory[1].date = Today0
          /\ students[i].attendanceHistory[1].status = "excused"
          /\ students[i].attendanceHistory[2].date = Monday0

-----------------------------------------------------------------------------
(* Claims about missing and malformed times, checked on the degrade        *)
(* machine.                                                                *)

\* C21: a recurring instance is emitted only if both its resolved start time
\* and its resolved end time are valid wall-clock values: no instance of the
\* computed schedule has an invalid start or end.
C21_LenientDegrade ==
    ~effectPending =>
        \A i \in DOMAIN scheduleEvents :
            scheduleEvents[i].isRecurring =>
                /\ scheduleEvents[i].start # InvalidDate
                /\ scheduleEvents[i].end # InvalidDate

-----------------------------------------------------------------------------
(* Claims about the one-off events of the schedule, checked on the         *)
(* projection machine.                                                     *)

IsOneOff(instance) == ~instance.isRecurring

\* the non-recurring instances of the schedule, in the schedule's order
OneOffInstances == SelectSeq(scheduleEvents, IsOneOff)

\* an instance that carries no status is taken as active
IsActiveInstance(instance) ==
    "status" \in DOMAIN instance => instance.status = "active"

\* C22: the computed schedule holds exactly one non-recurring instance per
\* one-off event, carrying the event's id, with end = start + 60 minutes and
\* status active, also after updateCalendarEvent has been applied to an
\* event.
C22_OneOffProjection ==
    ~effectPending =>
        /\ Len(OneOffInstances) = Len(events)
        /\ \A k \in DOMAIN OneOffInstances :
              /\ OneOffInstances[k].id = events[k].id
              /\ OneOffInstances[k].start # InvalidDate =>
                    OneOffInstances[k].end = <<OneOffInstances[k].start[1] + 60>>
              /\ IsActiveInstance(OneOffInstances[k])

-----------------------------------------------------------------------------
(* Claims about the identifiers of the schedule (ExceptionSpec).           *)

\* the decimal digits of n, padded with zeros to the given width
RECURSIVE Digits(_, _)
Digits(n, width) ==
    IF width = 0 THEN <<>>
    ELSE Append(Digits(n \div 10, width - 1), n % 10)

\* format(date, 'yyyy-MM-dd') as a sequence of characters
DateText(dateStr) ==
    Digits(dateStr[1], 4) \o <<"-">> \o Digits(dateStr[2], 2) \o <<"-">>
        \o Digits(dateStr[3], 2)

\* `${cls.id}-${dateStr}` as a sequence of characters
IdText(clsIdText, dateStr) == clsIdText \o <<"-">> \o DateText(dateStr)

\* class ids as sequences of characters, some ending like an identifier
ClassIdTexts ==
    {<<"c", 1>>, <<"c", 1, "-", 2, 0, 2, 4>>, <<"c", 1, "-", 2, 0, 2, 4, "-", 0, 6, "-", 0, 3>>,
     <<"c">>, <<>>}

IdDates == {Monday1, Wednesday1, <<2024, 6, 30>>, <<2024, 12, 3>>, <<2025, 1, 1>>}

\* the date of a recurring instance: the day of its start
DateOf(instance) == FormatDate(instance.start[1] \div 1440)

\* the (series id, date) pairs of the recurring instances
RenderedPairs ==
    {<<scheduleEvents[i].classId, DateOf(scheduleEvents[i])>> : i \in RecurringIndices}

\* the identifiers of the recurring instances, each with its pair
IdsWithPairs ==
    {<<scheduleEvents[i].id, scheduleEvents[i].classId, DateOf(scheduleEvents[i])>> :
        i \in RecurringIndices}

-----------------------------------------------------------------------------
(* Claims about the recomputation of the schedule, checked on the schedule *)
(* machine.                                                                *)

ScheduleIsCurrent == scheduleEvents = calculateCalendarEvents(classes, events)

\* the step is a member, attendance or rank entry point
IsMemberOrRankCall ==
    /\ calls' = calls + 1
    /\ lastCall'.op \in {"deleteStudent", "updateStudentStatus", "markAttendance", "addRank"}

\* C24: the schedule equals the expansion of the current classes and events
\* unless a recomputation is pending, and a member, attendance or rank
\* entry point that leaves classes and events as they are neither changes
\* the schedule nor makes a recomputation pending.
C24_DerivedSchedule ==
    /\ [](~effectPending => ScheduleIsCurrent)
    /\ [][(IsMemberOrRankCall /\ ~effectPending /\ classes' = classes /\ events' = events) =>
            /\ scheduleEvents' = scheduleEvents
            /\ ~effectPending']_vars

-----------------------------------------------------------------------------
(* Claims about rosters and registrant lists, checked on the fan-out       *)
(* machine.                                                                *)

\* the member id is on no roster and on no registrant list
Unreferenced(id) ==
    /\ \A c \in DOMAIN classes : ~Includes(classes[c].studentIds, id)
    /\ \A k \in DOMAIN events : ~Includes(events[k].registrants, id)

IsMember(id) == \E i \in DOMAIN students : students[i].id = id

\* C25: after a deleteStudent(id) of the master whose calls all resolve, the
\* member is absent from students, no class's studentIds contains id and no
\* event's registrants contains id.
C25_DeletionFanOut ==
    (/\ lastCall.op = "deleteStudent"
     /\ lastCall.rejected = "none"
     /\ currentUser.role = "master")
    => (~IsMember(lastCall.id) /\ Unreferenced(lastCall.id))

\* s1, who was on both rosters and on both registrant lists, has been
\* deleted by the first call
C25_Witness ==
    /\ lastCall.op = "deleteStudent"
    /\ lastCall.rejected = "none"
    /\ lastCall.id = "s1"
    /\ calls = 1
    /\ Len(students) = 1
    /\ classes[1].studentIds = <<"s2">>
    /\ classes[2].studentIds = <<>>
    /\ events[1].registrants = <<>>
    /\ events[2].registrants = <<>>

\* C26: whichever persistence call of deleteStudent fails, the call leaves no
\* state in which the member is removed from students but still on a roster
\* or a registrant list.
C26_FanOutAtomicity ==
    (/\ lastCall.op = "deleteStudent"
     /\ currentUser.role = "master"
     /\ ~IsMember(lastCall.id))
    => Unreferenced(lastCall.id)

NoDuplicates(arr) == \A k, l \in DOMAIN arr : arr[k] = arr[l] => k = l

\* C29: under addEvent, registerForEvent, updateEventRegistrants,
\* enrollStudent, unenrollStudent and deleteStudent every event's registrants
\* contains no member id twice, registeredCount equals the number of
\* registrants, and every class's studentCount equals the number of ids in
\* studentIds.
C29_CountersCoherent ==
    /\ \A k \in DOMAIN events :
          /\ NoDuplicates(events[k].registrants)
          /\ events[k].registeredCount = Len(events[k].registrants)
    /\ \A c \in DOMAIN classes : classes[c].studentCount = Len(classes[c].studentIds)
-----------------------------------------------------------------------------
(* Outcomes of addStudent (OutcomeSpec).                                   *)

\* the outcome a master is shown for an addStudent whose PulseService call
\* rejected rejects: the toast kinds of addToast, "error" for a failure
ReportedOutcome(rejected) ==
    IF rejected = "none" THEN "success"
    ELSE IF rejected = "createStudentAccountFromMaster" THEN "info"
    ELSE "error"

IsAddStudentByMaster == lastCall.op = "addStudent" /\ currentUser.role = "master"

\* C27: after addStudent by a master the new member is in local state in every
\* outcome; the outcome shown is success when saveStudents and
\* createStudentAccountFromMaster both resolve, the distinct info outcome when
\* only createStudentAccountFromMaster rejects, and a failure when
\* saveStudents rejects.
C27_AddStudentOutcomes ==
    IsAddStudentByMaster =>
        /\ \E k \in DOMAIN students : students[k].id = lastCall.student.id
        /\ lastCall.toast = ReportedOutcome(lastCall.rejected)
-----------------------------------------------------------------------------
(* Coverage of the expansion window (WindowSpec).                          *)

\* the last day of the month monthIndex (0-based, carried) of year
LastDayOfMonth(year, monthIndex) == JsDate(year, monthIndex + 1, 0)

\* the calendar date n months from date: the same day of the month, or the
\* month's last day when the month is shorter
AddMonths(date, n) ==
    LET civil == CivilFromDays(date)
        first == JsDate(civil[1], civil[2] - 1 + n, 1)
        last == LastDayOfMonth(civil[1], civil[2] - 1 + n)
    IN  IF first + civil[3] - 1 <= last THEN first + civil[3] - 1 ELSE last

\* the dates from 2 months before now to 10 months after now
Required == AddMonths(now, 0 - 2)..AddMonths(now, 10)

\* the dates the computed schedule shows the class at
ShownDates == {ParseDate(scheduleEvents[i].id[2]) : i \in RecurringIndices}

IsClassDay(cls, date) == Includes(cls.days, dayNames[GetDay(date) + 1])

\* C28: for every value of the clock the expansion window contains every
\* date from 2 months before now to 10 months after now, both included, and
\* the computed schedule shows the weekly class on each of its days among them.
C28_WindowCoverage ==
    ~effectPending =>
        /\ \A date \in Required : date \in Window
        /\ \A date \in Required : IsClassDay(classes[1], date) => date \in ShownDates
-----------------------------------------------------------------------------
(* The persisted copy of a marked member (LedgerSpec).                     *)

\* the records of list with the id
WithId(list, id) == {list[i] : i \in {j \in DOMAIN list : list[j].id = id}}

IsPersistedMark == lastCall.op = "markAttendance" /\ db.saved = <<"saveStudents">>

\* C30: the member record markAttendance hands to saveStudents equals, status
\* included, the record it places in local state: after a markAttendance
\* that saved a member the store's copy of the member is the local one.
C30_PersistedEqualsLocal ==
    IsPersistedMark => WithId(db.students, lastCall.studentId)
                           = WithId(students, lastCall.studentId)
-----------------------------------------------------------------------------
(* Mutations issued against one snapshot (SnapshotSpec).                   *)

\* the member a call is about
MemberOf(call) == IF call.op = "markAttendance" THEN call.studentId ELSE call.id

\* the list after call, applied to list by a render of its own
AppliedTo(call, list) ==
    IF SetsStudents(call, list) THEN StudentsSetBy(call, list) ELSE list

IsSameRenderOfTwoMembers ==
    /\ calls' = calls + 2
    /\ lastCall'.op = "sameRender"
    /\ MemberOf(lastCall'.first) # MemberOf(lastCall'.second)

\* C31: when two member mutations that touch different members are started
\* before the provider renders again, the resulting students holds the effect
\* of both, that is, what the two calls give one after the other.
C31_NoLostUpdate ==
    [][IsSameRenderOfTwoMembers =>
          students' = AppliedTo(lastCall'.second, AppliedTo(lastCall'.first, students))]_vars
-----------------------------------------------------------------------------
(* promoteStudent on a member whose rank is not in the list (PromotionSpec). *)

HasKnownRank(s) == \E r \in DOMAIN academySettings.ranks : academySettings.ranks[r].id = s.rankId

IsPromoteCall == calls' = calls + 1 /\ lastCall'.op = "promoteStudent"

\* C32: promoteStudent on a member whose rankId does not occur in the rank
\* list leaves that member's rank, status, attendance count and history
\* unchanged.
C32_UnknownRankUntouched ==
    [][IsPromoteCall =>
          \A i \in DOMAIN students :
              (students[i].id = lastCall'.studentId /\ ~HasKnownRank(students[i]))
                  => /\ students'[i].rankId = students[i].rankId
                     /\ students'[i].rank = students[i].rank
                     /\ students'[i].status = students[i].status
                     /\ students'[i].attendance = students[i].attendance
                     /\ students'[i].attendanceHistory = students[i].attendanceHistory
                     /\ students'[i].promotionHistory = students[i].promotionHistory]_vars
-----------------------------------------------------------------------------
(* Edits of displayed recurring instances (EditSpec).                      *)

\* the exception a wrapper has just written for the class at index c
WrittenFor(c) == classes'[c].modifications[Len(classes'[c].modifications)]

\* the schedule shows an instance of the class at the date
IsDisplayed(cls, dateStr) ==
    \E i \in RecurringIndices : scheduleEvents[i].id = InstanceId(cls.id, dateStr)

\* the instance carries the change the exception asks for
CarriesChange(instance, modification) ==
    IF modification.type = "cancel" THEN instance.status = "cancelled"
    ELSE /\ modification.newInstructor # Undefined
              => instance.instructor = modification.newInstructor
         /\ modification.newStartTime # NoString
              => instance.start = SetHours(ParseDate(modification.date),
                                           modification.newStartTime)
         /\ modification.newEndTime # NoString
              => instance.end = SetHours(ParseDate(modification.date),
                                         modification.newEndTime)

\* the next expansion shows the class at the exception's date with the change
ShownChanged(c) ==
    LET next == calculateCalendarEvents(classes', events')
    IN  \E i \in DOMAIN next :
            /\ next[i].isRecurring
            /\ next[i].id = InstanceId(classes'[c].id, WrittenFor(c).date)
            /\ CarriesChange(next[i], WrittenFor(c))

\* C33: after a master calls deleteCalendarEvent or updateCalendarEvent for
\* the recurring instance of a series shown on a date, the next expansion
\* shows the instance of the series on that date with the requested change,
\* also when the instance was moved onto the date by a move exception.
C33_EditTakesEffect ==
    [][\A c \in DOMAIN classes :
          (classes'[c] # classes[c] /\ IsDisplayed(classes[c], WrittenFor(c).date))
              => ShownChanged(c)]_vars
-----------------------------------------------------------------------------
(* Enrollment symmetry (EnrollSpec).                                       *)

\* the class exists and has the member on its roster
OnRoster(studentId, classId) ==
    \E c \in DOMAIN classes :
        classes[c].id = classId /\ Includes(classes[c].studentIds, studentId)

\* C34: in every quiescent state reached from a symmetric state by
\* enrollStudent, unenrollStudent, deleteClass and deleteStudent, called with
\* ids that exist or do not, a member's classesId contains a class id if and
\* only if the class exists and its studentIds contains the member.
C34_EnrollmentSymmetry ==
    ~effectPending =>
        \A i \in DOMAIN students : \A classId \in ClassIds :
            Includes(students[i].classesId, classId)
                <=> OnRoster(students[i].id, classId)
-----------------------------------------------------------------------------
(* Attendance marking by a student (AttendanceSpec).                       *)

IsAttendanceCall ==
    /\ calls' = calls + 1
    /\ lastCall'.op \in {"markAttendance", "bulkMarkPresent"}

\* C35: for every call of markAttendance or bulkMarkPresent made by an actor
\* who is not a master, every member other than the actor's own member record
\* is unchanged.
C35_StudentsMarkNoOthers ==
    [][(IsAttendanceCall /\ currentUser.role # "master") =>
          \A i \in DOMAIN students :
              students[i].id # currentUser.studentId => students'[i] = students[i]]_vars
-----------------------------------------------------------------------------
(* A student's edit of the own profile (ProfileSpec).                      *)

IsOwnProfileEdit ==
    /\ calls' = calls + 1
    /\ lastCall'.op = "updateStudentProfile"
    /\ currentUser.role = "student"
    /\ lastCall'.studentId = currentUser.studentId

Protected(s) == <<s.status, s.rankId, s.attendance, s.attendanceHistory, s.balance>>

\* C36: updateStudentProfile called by a student on the own record leaves the
\* record's status, rankId, attendance count, attendance history and balance
\* unchanged, whatever the updates argument.
C36_SelfEditKeepsProtected ==
    [][IsOwnProfileEdit =>
          \A i \in DOMAIN students :
              students[i].id = currentUser.studentId
                  => Protected(students'[i]) = Protected(students[i])]_vars
-----------------------------------------------------------------------------
(* The auth session (AuthSpec).                                            *)

\* the steps of the session effect: initAuth and the auth event callback
HandlerOps == {"getCurrentUser", "initAuth", "onAuthStateChange", "onAuthStateChange settled"}

\* C37: once a SIGNED_OUT event has been handled and no later SIGNED_IN or
\* TOKEN_REFRESHED event or login occurs, currentUser is null and stays null,
\* also when the callback of an earlier event is still awaiting getCurrentUser
\* when SIGNED_OUT arrives; and after the cleanup of the effect no step of
\* initAuth or of the callback changes currentUser.
C37_SignOutIsFinal ==
    [][/\ auth'.signedOut => currentUser' = Null
       /\ (~auth.mounted /\ lastCall'.op \in HandlerOps) => currentUser' = currentUser]_vars
-----------------------------------------------------------------------------
(* What ProtectedRoute renders (AuthSpec).                                 *)

IsRenderStep == lastCall'.op = "ProtectedRoute"

IsAllowed(roles) == currentUser # Null /\ currentUser.role \in roles

\* C38: ProtectedRoute renders its children only when the auth state is not
\* loading, currentUser is not null and its role is in allowedRoles; while
\* loading it renders neither children nor a redirect, with no user it
\* redirects to "/", and with a user whose role is not allowed to "/403".
C38_ProtectedRouteGuards ==
    [][IsRenderStep =>
          /\ route'.output = "children"
                <=> (~auth.loading /\ IsAllowed(route'.allowedRoles))
          /\ auth.loading => route'.output \notin {"children", "/", "/403"}
          /\ (~auth.loading /\ currentUser = Null) => route'.output = "/"
          /\ (~auth.loading /\ currentUser # Null /\ ~IsAllowed(route'.allowedRoles))
                => route'.output = "/403"]_vars

\* a student is sent to "/403" by a route that allows masters only
C38_Witness ==
    /\ lastCall.op = "ProtectedRoute"
    /\ ~auth.loading
    /\ currentUser = StudentUser
    /\ route = [allowedRoles |-> {"master"}, output |-> "/403"]
====
